---- MODULE Spec2Model ----
(***************************************************************************)
(* Model of the restaurant-planner backend: the blacklist filter and the   *)
(* discover workflow (agentic_ai/ and services/), the Firestore-backed     *)
(* FirebaseService, and the Flask route handlers built on it.              *)
(*                                                                         *)
(* Text is modelled as a sequence of one-character strings, so that        *)
(* str.lower(), str.strip() and ', '.join() are computed, not assumed;     *)
(* where the code only concatenates and compares text, longer literal      *)
(* fragments stand for their characters.                                   *)
(* A Python dict with optional keys is a record whose DOMAIN holds just    *)
(* the keys that are present.                                              *)
(***************************************************************************)
EXTENDS Integers, Sequences, FiniteSets, TLC

VARIABLES
    \* ---- blacklist filter / discover workflow ----
    all_restaurants,      \* the pool read by get_restaurants_from_firestore()
    state,                \* RestaurantPlannerState handed to discover_restaurants
    variant,              \* which copy of the workflow runs: "agentic_ai" | "services"
    dpc,                  \* position inside the call being modelled
    restaurants,          \* the list that is scored (after the filter, where there is one)
    score_calls,          \* candidates score_restaurant has been invoked on, in order
    scored_restaurants,   \* (score, restaurant, reasoning) triples
    top_recommendations,  \* result of discover_restaurants
    pass1,                \* filter_blacklisted_restaurants(pool, dislikes)
    pass2,                \* filter_blacklisted_restaurants(pass1, dislikes)
    cuisine_similarity,   \* what the embedding back-end answers (hundredths, 0: down)
    \* ---- Firestore collections (FirebaseService) ----
    users,                         \* 'users': phone number -> profile
    events,                        \* 'events': event id -> event document
    event_responses,               \* 'event_responses': documents, in creation order
    restaurant_dislikes,           \* 'restaurant_dislikes': documents; the index is the doc id
    restaurant_recommendations,    \* 'restaurant_recommendations': sessions, in creation order
    clock,                         \* the server time SERVER_TIMESTAMP resolves to
    \* ---- Flask request handlers ----
    requests,                      \* submit_response calls in flight: id -> locals
    last_get,                      \* the value get_recommendations returned, while it
                                   \* is the most recent call on the sessions
    http,                          \* the last answer of the generate-recommendations route
    \* ---- score_restaurant and the embedding cache (services/utils.py) ----
    OPENAI_API_KEY,        \* whether the module constant is set
    embedding_cache,       \* _embedding_cache: normalized text -> vector
    score_call,            \* the call of score_restaurant being made, or the last one
    score_log,             \* what the first call with given arguments returned
    \* ---- AIAgentService.generate_recommendations ----
    generation,            \* the call being made: its arguments and what it gave
    \* ---- 'bookings' collection ----
    bookings,              \* the booking documents, in creation order
    \* ---- OutboundCallService ----
    call                   \* the reservation request being served: its arguments,
                           \* the position in the code and the locals

plannerVars == <<all_restaurants, state, variant, dpc, restaurants, score_calls,
                 scored_restaurants, top_recommendations, pass1, pass2,
                 cuisine_similarity>>

storeVars == <<users, events, event_responses, restaurant_dislikes,
               restaurant_recommendations, clock>>

routeVars == <<requests, last_get, http>>

scoreVars == <<OPENAI_API_KEY, embedding_cache, score_call, score_log>>

vars == <<plannerVars, storeVars, routeVars, scoreVars, generation, bookings, call>>

-----------------------------------------------------------------------------
(* Bounds of the model *)

MaxPool == 2
MaxDislikes == 2
MaxRankPool == 7

-----------------------------------------------------------------------------
(* Python text operations *)

\* str.lower() on one character
LowerChar(c) ==
    CASE c = "A" -> "a"
      [] c = "B" -> "b"
      [] c = "C" -> "c"
      [] c = "S" -> "s"
      [] c = "V" -> "v"
      [] c = "The Gourmet Kitchen" -> "the gourmet kitchen"
      [] c = "Amsterdam" -> "amsterdam"
      [] c = ", Main Street 123" -> ", main street 123"
      [] OTHER -> c

\* str.lower()
Lower(s) == [i \in DOMAIN s |-> LowerChar(s[i])]

RECURSIVE LStrip(_)
LStrip(s) == IF s # <<>> /\ Head(s) = " " THEN LStrip(Tail(s)) ELSE s

RECURSIVE RStrip(_)
RStrip(s) ==
    IF s # <<>> /\ s[Len(s)] = " " THEN RStrip(SubSeq(s, 1, Len(s) - 1)) ELSE s

\* str.strip()
Strip(s) == RStrip(LStrip(s))

\* ', '.join(filter(None, parts))
RECURSIVE JoinNonEmpty(_)
JoinNonEmpty(parts) ==
    IF parts = <<>> THEN <<>>
    ELSE LET rest == JoinNonEmpty(Tail(parts))
         IN  IF Head(parts) = <<>> THEN rest
             ELSE IF rest = <<>> THEN Head(parts)
             ELSE Head(parts) \o <<",", " ">> \o rest

\* dict.get(key, default)
Get(d, k, default) == IF k \in DOMAIN d THEN d[k] ELSE default

\* `needle in hay` for text
IsSubstring(needle, hay) ==
    \E i \in 1..(Len(hay) + 1) :
        /\ i + Len(needle) - 1 <= Len(hay)
        /\ SubSeq(hay, i, i + Len(needle) - 1) = needle

-----------------------------------------------------------------------------
(* filter_blacklisted_restaurants *)

\* without the is_active test: every record blacklists
IsActiveDislike_Always(d) == TRUE

\* `dislike.get('is_active', True)`
IsActiveDislike(d) == Get(d, "is_active", TRUE)

\* the loop of lines 113-123: the set of blacklisted location ids
BlacklistedLocationIds(dislikes) ==
    { dislikes[i].location_id :
        i \in { j \in DOMAIN dislikes :
                  IsActiveDislike(dislikes[j]) /\ "location_id" \in DOMAIN dislikes[j] } }

\* the key compared as stored, without lower().strip()
DislikeKey_Raw(d) == <<d.restaurant_name, d.restaurant_address>>

\* the normalised (name, address) key of a dislike record, lines 120-123
DislikeKey(d) == <<Strip(Lower(d.restaurant_name)), Strip(Lower(d.restaurant_address))>>

\* the loop of lines 113-123: the set of blacklisted (name, address) tuples
BlacklistedPairs(dislikes) ==
    { DislikeKey(dislikes[i]) :
        i \in { j \in DOMAIN dislikes :
                  /\ IsActiveDislike(dislikes[j])
                  /\ "restaurant_name" \in DOMAIN dislikes[j]
                  /\ "restaurant_address" \in DOMAIN dislikes[j] } }

\* lines 137-148: the candidate's normalised name and reconstructed address
RestaurantAddress(r) ==
    LET a == Get(r, "address_obj", [x \in {} |-> <<>>])
    IN  Strip(Lower(JoinNonEmpty(<<Get(a, "street", <<>>), Get(a, "city", <<>>),
                                   Get(a, "state", <<>>), Get(a, "country", <<>>)>>)))

RestaurantKey(r) == <<Strip(Lower(Get(r, "name", <<>>))), RestaurantAddress(r)>>

\* without the truth test on the candidate's location_id
IsBlacklisted_EmptyIdCounts(r, ids, pairs) ==
    \/ Get(r, "location_id", "") \in ids
    \/ RestaurantKey(r) \in pairs

\* name and address consulted only for a candidate without a location_id
IsBlacklisted_IdentityFirst(r, ids, pairs) ==
    IF Get(r, "location_id", "") # ""
      THEN Get(r, "location_id", "") \in ids
      ELSE RestaurantKey(r) \in pairs

\* lines 128-151: the decision for one candidate
IsBlacklisted(r, ids, pairs) ==
    \/ Get(r, "location_id", "") # "" /\ Get(r, "location_id", "") \in ids
    \/ RestaurantKey(r) \in pairs

\* a filter that deletes from the list it is iterating over: after a removal
\* the iterator steps over the element that moved into the freed slot
RECURSIVE FilterLoop_RemoveWhileIterating(_, _, _)
FilterLoop_RemoveWhileIterating(rs, ids, pairs) ==
    IF rs = <<>> THEN <<>>
    ELSE IF IsBlacklisted(Head(rs), ids, pairs)
         THEN IF Tail(rs) = <<>> THEN <<>>
              ELSE <<Head(Tail(rs))>>
                     \o FilterLoop_RemoveWhileIterating(Tail(Tail(rs)), ids, pairs)
         ELSE <<Head(rs)>> \o FilterLoop_RemoveWhileIterating(Tail(rs), ids, pairs)

RECURSIVE FilterLoop(_, _, _)
FilterLoop(rs, ids, pairs) ==
    IF rs = <<>> THEN <<>>
    ELSE IF IsBlacklisted(Head(rs), ids, pairs)
         THEN FilterLoop(Tail(rs), ids, pairs)
         ELSE <<Head(rs)>> \o FilterLoop(Tail(rs), ids, pairs)

filter_blacklisted_restaurants(rs, dislikes) ==
    IF dislikes = <<>> THEN rs
    ELSE FilterLoop(rs, BlacklistedLocationIds(dislikes), BlacklistedPairs(dislikes))

-----------------------------------------------------------------------------
(* score_restaurant: scores are counted in hundredths, ratings in tenths *)

PriceLevels(p) ==
    CASE p = "$" -> 25 [] p = "$$" -> 50 [] p = "$$$" -> 100 [] p = "$$$$" -> 200
      [] OTHER -> 50

City(r) ==
    LET a == Get(r, "address_obj", [x \in {} |-> <<>>])
    IN  Get(a, "city", <<>>)

LocationMatches(r, parsed_input) ==
    /\ City(r) # <<>>
    /\ IsSubstring(Lower(Get(parsed_input, "location_preference", <<>>)), Lower(City(r)))

\* set(c.lower() for c in restaurant_cuisines) & set(c.lower() for c in parsed_cuisines)
MatchingCuisines(r, parsed_input) ==
    LET rc == Get(r, "cuisine", <<>>)
        pc == Get(parsed_input, "cuisine_preferences", <<>>)
    IN  { Lower(rc[i]) : i \in DOMAIN rc } \cap { Lower(pc[i]) : i \in DOMAIN pc }

CuisineGate(r, parsed_input) ==
    LET rc == Get(r, "cuisine", <<>>)
        pc == Get(parsed_input, "cuisine_preferences", <<>>)
    IN  /\ rc # <<>>
        /\ pc # <<>>
        /\ ~ \E i \in DOMAIN pc : pc[i] = <<"A", "n", "y">>

PriceFits(r, parsed_input) ==
    LET rest_price == PriceLevels(Get(r, "price_level", "$$"))
    IN  /\ Get(parsed_input, "budget_min", 0) <= rest_price
        /\ rest_price <= Get(parsed_input, "budget_max", 1000)

\* the sub-scores after the cuisine one, shared by both copies of score_restaurant
TailScore(r, parsed_input) ==
      (IF PriceFits(r, parsed_input) THEN 150 ELSE 0)
    + (IF Get(r, "rating", 0) > 0 THEN Get(r, "rating", 0) * 5 ELSE 0)
    + (IF Get(parsed_input, "attendee_count", 0) <= 20 THEN 100 ELSE 0)

TailReasons(r, parsed_input) ==
       (IF PriceFits(r, parsed_input)
          THEN << <<"Price level within budget range", Get(r, "price_level", "$$")>> >>
          ELSE <<>>)
    \o (IF Get(r, "rating", 0) > 0
          THEN << <<"Rating bonus", Get(r, "rating", 0)>> >> ELSE <<>>)
    \o (IF Get(parsed_input, "attendee_count", 0) <= 20
          THEN << <<"Can accommodate group of", Get(parsed_input, "attendee_count", 0)>> >>
          ELSE <<>>)

HeadScore(r, parsed_input) == IF LocationMatches(r, parsed_input) THEN 200 ELSE 0

HeadReasons(r, parsed_input) ==
    IF LocationMatches(r, parsed_input)
      THEN << <<"Location matches", Get(parsed_input, "location_preference", <<>>)>> >>
      ELSE <<>>

\* without the fallback fragment
OrGeneral_NoFallback(reasons) == reasons

\* `if not reasons: reasons.append("General recommendation")`
OrGeneral(reasons) == IF reasons = <<>> THEN << <<"General recommendation">> >> ELSE reasons

\* agentic_ai/utils.py: keyword overlap only
score_restaurant(r, parsed_input) ==
    LET m  == IF CuisineGate(r, parsed_input) THEN MatchingCuisines(r, parsed_input) ELSE {}
    IN  [score |-> HeadScore(r, parsed_input) + 100 * Cardinality(m)
                     + TailScore(r, parsed_input),
         reasoning |-> OrGeneral(HeadReasons(r, parsed_input)
                         \o (IF m # {} THEN << <<"Matches cuisines", m>> >> ELSE <<>>)
                         \o TailReasons(r, parsed_input))]

\* services/utils.py: embedding similarity (in hundredths, as answered by the
\* embedding back-end for this pair of texts; 0 when it is unavailable) with
\* the keyword overlap as fallback
score_restaurant_services(r, parsed_input, similarity) ==
    LET gate == CuisineGate(r, parsed_input)
        m    == IF gate /\ similarity <= 0
                  THEN MatchingCuisines(r, parsed_input) ELSE {}
        sim  == IF gate /\ similarity > 0 THEN similarity ELSE 0
    IN  [score |-> HeadScore(r, parsed_input) + 3 * sim + 100 * Cardinality(m)
                     + TailScore(r, parsed_input),
         reasoning |-> OrGeneral(HeadReasons(r, parsed_input)
                         \o (IF sim > 0 THEN << <<"Cuisine similarity", sim>> >> ELSE <<>>)
                         \o (IF m # {} THEN << <<"Matches cuisines", m>> >> ELSE <<>>)
                         \o TailReasons(r, parsed_input))]

\* a sort that puts the later of two equal scores first
RECURSIVE InsertByScore_TiesReversed(_, _)
InsertByScore_TiesReversed(sorted, x) ==
    IF sorted = <<>> THEN <<x>>
    ELSE IF Head(sorted).score > x.score
         THEN <<Head(sorted)>> \o InsertByScore_TiesReversed(Tail(sorted), x)
         ELSE <<x>> \o sorted

\* list.sort(reverse=True, key=score): stable, equal scores keep their order
RECURSIVE InsertByScore(_, _)
InsertByScore(sorted, x) ==
    IF sorted = <<>> THEN <<x>>
    ELSE IF Head(sorted).score >= x.score
         THEN <<Head(sorted)>> \o InsertByScore(Tail(sorted), x)
         ELSE <<x>> \o sorted

RECURSIVE SortByScoreDesc(_)
SortByScoreDesc(xs) ==
    IF xs = <<>> THEN <<>>
    ELSE InsertByScore(SortByScoreDesc(SubSeq(xs, 1, Len(xs) - 1)), xs[Len(xs)])

TopK == 5

\* without the cut
Top5_NoCut(xs) == xs

\* scored_restaurants[:5]
Top5(xs) == SubSeq(xs, 1, IF Len(xs) < TopK THEN Len(xs) ELSE TopK)


-----------------------------------------------------------------------------
(* Inputs of the planner: pools, dislike lists and criteria *)

SeqsUpTo(S, n) == UNION { [1..k -> S] : k \in 0..n }

\* two venues, each listed once with and once without a location_id
Venues ==
    { [name |-> <<"A">>, address_obj |-> [street |-> <<"S">>, city |-> <<"C">>]],
      [name |-> <<"B", " ">>, address_obj |-> [city |-> <<"B">>]] }

Candidates ==
    { v @@ [location_id |-> id, cuisine |-> << <<"a">> >>, price_level |-> "$$",
            rating |-> 40] :
        v \in Venues, id \in {"", "L1"} }

\* what a dislike record is keyed by: a location_id only, or name and address only
DislikeKeys ==
    { [location_id |-> "L1"],
      [restaurant_name |-> <<" ", "a">>, restaurant_address |-> <<"S", ",", " ", "C", " ">>] }

\* is_active may be true, false or missing; one more record names the second
\* venue, and one carries an empty location_id
DislikeRecords ==
    DislikeKeys \cup { k @@ [is_active |-> b] : k \in DislikeKeys, b \in BOOLEAN }
      \cup { [restaurant_name |-> <<"B">>, restaurant_address |-> <<"b">>, is_active |-> TRUE],
             [location_id |-> "", is_active |-> TRUE] }

PlannerStates ==
    { [dislikes |-> ds, location_preference |-> <<"c">>,
       cuisine_preferences |-> << <<"A">> >>, budget_min |-> 0, budget_max |-> 1000,
       attendee_count |-> 4] :
        ds \in SeqsUpTo(DislikeRecords, MaxDislikes) }

\* answers of the embedding back-end for the one pair of cuisine texts in play
Similarities == {0, 80}

PlannerIdle ==
    /\ restaurants = <<>>
    /\ score_calls = <<>>
    /\ scored_restaurants = <<>>
    /\ top_recommendations = <<>>
    /\ pass1 = <<>>
    /\ pass2 = <<>>

\* a project whose collections hold no document and that serves no request
StoreEmpty ==
    /\ users = << >>
    /\ events = << >>
    /\ event_responses = << >>
    /\ restaurant_dislikes = << >>
    /\ restaurant_recommendations = << >>
    /\ clock = 0
    /\ requests = << >>
    /\ last_get = [called |-> FALSE]
    /\ http = [status |-> 0]

\* score_restaurant is not being called and nothing is cached
ScoreIdle ==
    /\ OPENAI_API_KEY = TRUE
    /\ embedding_cache = << >>
    /\ score_call = [pc |-> "idle"]
    /\ score_log = << >>

\* generate_recommendations is not being called
GenerationIdle == generation = [pc |-> "idle"]

\* the 'bookings' collection holds no document
BookingsEmpty == bookings = << >>

\* no reservation request is being served
CallIdle == call = [pc |-> "idle"]

\* no planner call is in progress
PlannerOff ==
    /\ all_restaurants = << >>
    /\ state = [dislikes |-> << >>]
    /\ variant = "agentic_ai"
    /\ cuisine_similarity = 0
    /\ dpc = "off"
    /\ PlannerIdle

-----------------------------------------------------------------------------
(* SpecFilter: filter_blacklisted_restaurants applied once and once more *)

InitFilter ==
    /\ all_restaurants \in SeqsUpTo(Candidates, MaxPool)
    /\ state \in PlannerStates
    /\ variant = "agentic_ai"
    /\ cuisine_similarity = 0
    /\ dpc = "start"
    /\ PlannerIdle
    /\ StoreEmpty
    /\ GenerationIdle
    /\ BookingsEmpty
    /\ CallIdle
    /\ ScoreIdle

FilterOnce ==
    /\ dpc = "start"
    /\ pass1' = filter_blacklisted_restaurants(all_restaurants, state.dislikes)
    /\ dpc' = "once"
    /\ UNCHANGED <<all_restaurants, state, variant, cuisine_similarity, restaurants,
                   score_calls, scored_restaurants, top_recommendations, pass2,
                   storeVars, routeVars,
                   scoreVars, generation, bookings, call>>

FilterTwice ==
    /\ dpc = "once"
    /\ pass2' = filter_blacklisted_restaurants(pass1, state.dislikes)
    /\ dpc' = "twice"
    /\ UNCHANGED <<all_restaurants, state, variant, cuisine_similarity, restaurants,
                   score_calls, scored_restaurants, top_recommendations, pass1,
                   storeVars, routeVars,
                   scoreVars, generation, bookings, call>>

NextFilter == FilterOnce \/ FilterTwice

SpecFilter == InitFilter /\ [][NextFilter]_vars

-----------------------------------------------------------------------------
(* SpecMatch: the filter on dislike records keyed by location_id, by name and *)
(* address, or by both                                                        *)

\* one venue, listed without a location_id and under two different ones
MatchCandidates ==
    { [name |-> <<"A">>, address_obj |-> [street |-> <<"S">>, city |-> <<"C">>],
       location_id |-> id, cuisine |-> << <<"a">> >>, price_level |-> "$$",
       rating |-> 40] : id \in {"", "L1", "L2"} }

MixedDislikes ==
    { [location_id |-> "L1", is_active |-> TRUE],
      [restaurant_name |-> <<"a">>, restaurant_address |-> <<"s", ",", " ", "c">>,
       is_active |-> TRUE],
      [location_id |-> "L2", restaurant_name |-> <<"a">>,
       restaurant_address |-> <<"s", ",", " ", "c">>, is_active |-> TRUE],
      [location_id |-> "L2", restaurant_name |-> <<"B">>,
       restaurant_address |-> <<"b">>, is_active |-> TRUE],
      [location_id |-> "L1", is_active |-> FALSE] }

MatchStates ==
    { [dislikes |-> ds, location_preference |-> <<"c">>,
       cuisine_preferences |-> << <<"A">> >>, budget_min |-> 0, budget_max |-> 1000,
       attendee_count |-> 4] :
        ds \in SeqsUpTo(MixedDislikes, MaxDislikes) }

InitMatch ==
    /\ all_restaurants \in SeqsUpTo(MatchCandidates, MaxPool)
    /\ state \in MatchStates
    /\ variant = "agentic_ai"
    /\ cuisine_similarity = 0
    /\ dpc = "start"
    /\ PlannerIdle
    /\ StoreEmpty
    /\ GenerationIdle
    /\ BookingsEmpty
    /\ CallIdle
    /\ ScoreIdle

SpecMatch == InitMatch /\ [][NextFilter]_vars

-----------------------------------------------------------------------------
(* SpecDiscover: discover_restaurants, one step per call it makes *)

InitDiscover ==
    /\ all_restaurants \in SeqsUpTo(Candidates, MaxPool)
    /\ state \in PlannerStates
    /\ \/ variant = "agentic_ai" /\ cuisine_similarity = 0
       \/ variant = "services" /\ cuisine_similarity \in Similarities
    /\ dpc = "start"
    /\ PlannerIdle
    /\ StoreEmpty
    /\ GenerationIdle
    /\ BookingsEmpty
    /\ CallIdle
    /\ ScoreIdle

\* agentic_ai/restaurant_planner.py lines 97-101
DiscoverFilter ==
    /\ dpc = "start"
    /\ variant = "agentic_ai"
    /\ restaurants' = filter_blacklisted_restaurants(all_restaurants,
                                                     Get(state, "dislikes", <<>>))
    /\ dpc' = "score"
    /\ UNCHANGED <<all_restaurants, state, variant, cuisine_similarity, score_calls,
                   scored_restaurants, top_recommendations, pass1, pass2,
                   storeVars, routeVars,
                   scoreVars, generation, bookings, call>>

\* services/restaurant_planner.py line 77: the pool is scored as read
DiscoverLoad ==
    /\ dpc = "start"
    /\ variant = "services"
    /\ restaurants' = all_restaurants
    /\ dpc' = "score"
    /\ UNCHANGED <<all_restaurants, state, variant, cuisine_similarity, score_calls,
                   scored_restaurants, top_recommendations, pass1, pass2,
                   storeVars, routeVars,
                   scoreVars, generation, bookings, call>>

\* one iteration of `for restaurant in restaurants`
ScoreNext ==
    /\ dpc = "score"
    /\ Len(score_calls) < Len(restaurants)
    /\ LET r == restaurants[Len(score_calls) + 1]
           s == IF variant = "agentic_ai"
                  THEN score_restaurant(r, state)
                  ELSE score_restaurant_services(r, state, cuisine_similarity)
       IN  /\ score_calls' = Append(score_calls, r)
           /\ scored_restaurants' =
                Append(scored_restaurants,
                       [score |-> s.score, restaurant |-> r, reasoning |-> s.reasoning])
    /\ UNCHANGED <<all_restaurants, state, variant, cuisine_similarity, dpc, restaurants,
                   top_recommendations, pass1, pass2, storeVars, routeVars,
                   scoreVars, generation, bookings, call>>

\* sort, take the top 5, build the recommendations and return
Rank ==
    /\ dpc = "score"
    /\ Len(score_calls) = Len(restaurants)
    /\ top_recommendations' = Top5(SortByScoreDesc(scored_restaurants))
    /\ dpc' = "done"
    /\ UNCHANGED <<all_restaurants, state, variant, cuisine_similarity, restaurants,
                   score_calls, scored_restaurants, pass1, pass2, storeVars, routeVars,
                   scoreVars, generation, bookings, call>>

NextDiscover == DiscoverFilter \/ DiscoverLoad \/ ScoreNext \/ Rank

SpecDiscover == InitDiscover /\ [][NextDiscover]_vars


-----------------------------------------------------------------------------
(* SpecRank: discover_restaurants on pools longer than the five it returns *)

\* two venues that score the same and one that scores less; the second is the
\* one a dislike can name
RankCandidates ==
    { [name |-> <<"A">>, address_obj |-> [city |-> <<"C">>], location_id |-> "",
       cuisine |-> << <<"a">> >>, price_level |-> "$$", rating |-> 40],
      [name |-> <<"B">>, address_obj |-> [city |-> <<"C">>], location_id |-> "L1",
       cuisine |-> << <<"a">> >>, price_level |-> "$$", rating |-> 40],
      [name |-> <<"S">>, address_obj |-> [city |-> <<"C">>], location_id |-> "",
       cuisine |-> << <<"a">> >>, price_level |-> "$$", rating |-> 20] }

RankStates ==
    { [dislikes |-> ds, location_preference |-> <<"c">>,
       cuisine_preferences |-> << <<"A">> >>, budget_min |-> 0, budget_max |-> 1000,
       attendee_count |-> 4] :
        ds \in { << >>, << [location_id |-> "L1", is_active |-> TRUE] >> } }

InitRank ==
    /\ all_restaurants \in SeqsUpTo(RankCandidates, MaxRankPool)
    /\ state \in RankStates
    /\ \/ variant = "agentic_ai" /\ cuisine_similarity = 0
       \/ variant = "services" /\ cuisine_similarity \in Similarities
    /\ dpc = "start"
    /\ PlannerIdle
    /\ StoreEmpty
    /\ GenerationIdle
    /\ BookingsEmpty
    /\ CallIdle
    /\ ScoreIdle

SpecRank == InitRank /\ [][NextDiscover]_vars

-----------------------------------------------------------------------------
(* SpecScore: one call of score_restaurant on a candidate and criteria *)

AnyTag == <<"A", "n", "y">>

\* candidates with and without a city, cuisine tags, a cheap or dear price band
\* and a rating
ScoreCandidates ==
    { a @@ [name |-> <<"A">>, cuisine |-> cs, price_level |-> p, rating |-> rt] :
        a \in { << >>, [address_obj |-> [city |-> <<"C">>]] },
        cs \in { << >>, << <<"a">> >>, << <<"a">>, <<"B">> >> },
        p \in { "$", "$$$$" },
        rt \in { 0, 45 } }

\* criteria as parse_input builds them
ScoreCriteria ==
    { [location_preference |-> l, cuisine_preferences |-> cs,
       budget_min |-> b[1], budget_max |-> b[2], attendee_count |-> n] :
        l \in { <<"c">>, <<"x">> },
        cs \in { <<AnyTag>>, << <<"A">> >>, <<AnyTag, <<"A">> >>, << <<"A">>, <<"b">> >> },
        b \in { <<0, 1000>>, <<30, 100>> },
        n \in { 4, 21 } }

InitScore ==
    /\ score_call \in { [pc |-> "called", restaurant |-> r, parsed_input |-> c] :
                          r \in ScoreCandidates, c \in ScoreCriteria }
    /\ OPENAI_API_KEY = TRUE
    /\ embedding_cache = << >>
    /\ score_log = << >>
    /\ PlannerOff
    /\ StoreEmpty
    /\ GenerationIdle
    /\ BookingsEmpty
    /\ CallIdle

\* agentic_ai/utils.py score_restaurant(restaurant, parsed_input)
ScoreAgentic ==
    /\ score_call.pc = "called"
    /\ score_call' =
          [pc |-> "returned", variant |-> "agentic_ai",
           restaurant |-> score_call.restaurant,
           parsed_input |-> score_call.parsed_input,
           result |-> score_restaurant(score_call.restaurant, score_call.parsed_input)]
    /\ UNCHANGED <<plannerVars, storeVars, routeVars, generation, bookings, call, OPENAI_API_KEY, embedding_cache,
                   score_log>>

\* services/utils.py score_restaurant(restaurant, parsed_input), the embedding
\* back-end giving the two cuisine texts the similarity `similarity`
ScoreServices(similarity) ==
    /\ score_call.pc = "called"
    /\ score_call' =
          [pc |-> "returned", variant |-> "services",
           restaurant |-> score_call.restaurant,
           parsed_input |-> score_call.parsed_input,
           similarity |-> similarity,
           result |-> score_restaurant_services(score_call.restaurant,
                                                score_call.parsed_input, similarity)]
    /\ UNCHANGED <<plannerVars, storeVars, routeVars, generation, bookings, call, OPENAI_API_KEY, embedding_cache,
                   score_log>>

NextScore ==
    \/ ScoreAgentic
    \/ \E similarity \in Similarities : ScoreServices(similarity)

SpecScore == InitScore /\ [][NextScore]_vars

-----------------------------------------------------------------------------
(* services/utils.py: the embeddings behind the cuisine similarity.          *)
(* A vector is one of two directions or the empty array.                     *)

Vectors == {"u", "v"}

EmptyVector == "empty"

\* ', '.join(parts)
RECURSIVE Join(_)
Join(parts) ==
    IF parts = << >> THEN << >>
    ELSE IF Len(parts) = 1 THEN Head(parts)
    ELSE Head(parts) \o <<",", " ">> \o Join(Tail(parts))

RestaurantText(r) == <<"restaurant:">> \o Join(Get(r, "cuisine", << >>))

PreferenceText(parsed_input) ==
    <<"user:">> \o Join(Get(parsed_input, "cuisine_preferences", << >>))

\* a failed API call is not remembered
text_embedding_NoFailureCache(cache, key_set, text, answer) ==
    LET normalized == Lower(Strip(text))
    IN  IF normalized = << >>
          THEN [raised |-> FALSE, value |-> EmptyVector, cache |-> cache]
        ELSE IF normalized \in DOMAIN cache
          THEN [raised |-> FALSE, value |-> cache[normalized], cache |-> cache]
        ELSE IF ~key_set
          THEN [raised |-> TRUE, cache |-> cache]
        ELSE IF answer = "fail"
          THEN [raised |-> FALSE, value |-> EmptyVector, cache |-> cache]
        ELSE [raised |-> FALSE, value |-> answer,
              cache |-> (normalized :> answer) @@ cache]

\* _text_embedding(text) on the cache `cache`; key_set: OPENAI_API_KEY is set;
\* answer: what embeddings.create gives if it is called, "fail" or a vector
text_embedding(cache, key_set, text, answer) ==
    LET normalized == Lower(Strip(text))
    IN  IF normalized = << >>
          THEN [raised |-> FALSE, value |-> EmptyVector, cache |-> cache]
        ELSE IF normalized \in DOMAIN cache
          THEN [raised |-> FALSE, value |-> cache[normalized], cache |-> cache]
        ELSE IF ~key_set
          THEN [raised |-> TRUE, cache |-> cache]
        ELSE IF answer = "fail"
          THEN [raised |-> FALSE, value |-> EmptyVector,
                cache |-> (normalized :> EmptyVector) @@ cache]
        ELSE [raised |-> FALSE, value |-> answer,
              cache |-> (normalized :> answer) @@ cache]

\* _cosine_similarity in hundredths: 0.0 for an empty array, 1.0 for the same
\* direction, below zero for the two different ones
cosine_similarity(a, b) ==
    IF a = EmptyVector \/ b = EmptyVector THEN 0
    ELSE IF a = b THEN 100
    ELSE 0 - 20

\* services/utils.py score_restaurant with the embeddings it asks for
score_restaurant_embedded(r, parsed_input, cache, key_set, answers) ==
    IF ~CuisineGate(r, parsed_input)
      THEN [raised |-> FALSE, cache |-> cache,
            result |-> score_restaurant_services(r, parsed_input, 0)]
      ELSE LET rest_embedding == text_embedding(cache, key_set, RestaurantText(r),
                                                answers[1])
           IN  IF rest_embedding.raised THEN [raised |-> TRUE, cache |-> cache]
               ELSE LET pref_embedding ==
                          text_embedding(rest_embedding.cache, key_set,
                                         PreferenceText(parsed_input), answers[2])
                    IN  IF pref_embedding.raised
                          THEN [raised |-> TRUE, cache |-> rest_embedding.cache]
                          ELSE [raised |-> FALSE, cache |-> pref_embedding.cache,
                                result |->
                                  score_restaurant_services(r, parsed_input,
                                      cosine_similarity(rest_embedding.value,
                                                        pref_embedding.value))]

-----------------------------------------------------------------------------
(* SpecParse: parse_input of agentic_ai/restaurant_planner.py. The combined   *)
(* text is held as the list of the responses it was joined from, each with    *)
(* the budget it states, if any; what the structured-output LLM answers is    *)
(* not decided by the code and is any ParsedInput.                            *)

MaxResponses == 2

Responses ==
    { [attendee |-> "p1"],
      [attendee |-> "p1", budget |-> <<10, 30>>],
      [attendee |-> "p2", budget |-> <<20, 50>>] }

\* ParsedInput: attendee_count is required, the other fields are Optional
\* (here: a sequence of length 0 or 1)
ParsedInputs ==
    { [attendee_count |-> 2, location_preference |-> l,
       budget_min |-> lo, budget_max |-> hi, cuisine_preferences |-> << >>] :
        l \in { << >>, << <<"c">> >> },
        lo \in { << >>, <<10>>, <<20>> },
        hi \in { << >>, <<0>>, <<30>>, <<50>> } }

\* `x or default` on a number: None and 0 both give the default
OrNumber(x, default) == IF x = << >> \/ x[1] = 0 THEN default ELSE x[1]

\* `x or default` on a text or a list
OrValue(x, default) == IF x = << >> \/ x[1] = << >> THEN default ELSE x[1]

\* lines 42-91: {**state, ...} with the fields of the LLM's answer
parse_input(st, parsed) ==
    IF st.input = << >> THEN st
    ELSE [attendee_count |-> parsed.attendee_count,
          location_preference |-> OrValue(parsed.location_preference, <<"Amsterdam">>),
          budget_min |-> OrNumber(parsed.budget_min, 0),
          budget_max |-> OrNumber(parsed.budget_max, 1000),
          cuisine_preferences |->
              IF parsed.cuisine_preferences = << >> THEN <<AnyTag>>
              ELSE parsed.cuisine_preferences] @@ st

InitParse ==
    /\ state \in { [input |-> rs, dislikes |-> << >>] :
                      rs \in SeqsUpTo(Responses, MaxResponses) }
    /\ all_restaurants = << >>
    /\ variant = "agentic_ai"
    /\ cuisine_similarity = 0
    /\ dpc = "start"
    /\ PlannerIdle
    /\ StoreEmpty
    /\ GenerationIdle
    /\ BookingsEmpty
    /\ CallIdle
    /\ ScoreIdle

ParseInput(parsed) ==
    /\ dpc = "start"
    /\ state' = parse_input(state, parsed)
    /\ dpc' = "parsed"
    /\ UNCHANGED <<all_restaurants, variant, cuisine_similarity, restaurants, score_calls,
                   scored_restaurants, top_recommendations, pass1, pass2,
                   storeVars, routeVars, scoreVars, generation, bookings, call>>

NextParse == \E parsed \in ParsedInputs : ParseInput(parsed)

SpecParse == InitParse /\ [][NextParse]_vars

-----------------------------------------------------------------------------
(* SpecPartial: score_restaurant on dicts in which optional keys are absent  *)
(* or hold None. A key that holds None is named in the field `nulls` of the  *)
(* record and is not in its DOMAIN otherwise.                                *)

Nulls(d) == Get(d, "nulls", {})

\* None as price band is a key of no entry of price_levels, like any unknown band
NullsAsRead(r) ==
    IF "price_level" \in Nulls(r) THEN [price_level |-> "None"] @@ r ELSE r

\* the operations of score_restaurant that None does not support:
\* None.lower() (reached only when the candidate has a city), None <= int,
\* int <= None (reached only when budget_min <= rest_price held), None > 0
score_restaurant_raises(r, parsed_input) ==
    LET rest_price == PriceLevels(Get(NullsAsRead(r), "price_level", "$$"))
    IN  \/ City(r) # <<>> /\ "location_preference" \in Nulls(parsed_input)
        \/ "budget_min" \in Nulls(parsed_input)
        \/ /\ "budget_max" \in Nulls(parsed_input)
           /\ Get(parsed_input, "budget_min", 0) <= rest_price
        \/ "rating" \in Nulls(r)
        \/ "attendee_count" \in Nulls(parsed_input)

\* either copy of score_restaurant: `.get(key, default)` gives the default for
\* an absent key and None for a key that holds None; `or []` and the
\* isinstance test turn None into the default for the cuisine lists and the
\* address
score_restaurant_partial(v, r, parsed_input, similarity) ==
    IF score_restaurant_raises(r, parsed_input) THEN [raised |-> TRUE]
    ELSE [raised |-> FALSE,
          result |-> IF v = "agentic_ai"
                       THEN score_restaurant(NullsAsRead(r), parsed_input)
                       ELSE score_restaurant_services(NullsAsRead(r), parsed_input,
                                                      similarity)]

Opt(k, o, value) == IF o = "set" THEN [x \in {k} |-> value] ELSE << >>

Presence == {"absent", "null", "set"}

PartialCandidates ==
    { Opt("address_obj", o.address_obj, [city |-> <<"C">>])
        @@ Opt("cuisine", o.cuisine, << <<"a">> >>)
        @@ Opt("price_level", o.price_level, "$")
        @@ Opt("rating", o.rating, 45)
        @@ [name |-> <<"A">>, nulls |-> { k \in DOMAIN o : o[k] = "null" }] :
        o \in [ {"address_obj", "cuisine", "price_level", "rating"} -> Presence ] }

PartialCriteria ==
    { Opt("location_preference", o.location_preference, <<"c">>)
        @@ Opt("cuisine_preferences", o.cuisine_preferences, << <<"A">> >>)
        @@ Opt("budget_min", o.budget_min, 30)
        @@ Opt("budget_max", o.budget_max, 100)
        @@ Opt("attendee_count", o.attendee_count, 4)
        @@ [nulls |-> { k \in DOMAIN o : o[k] = "null" }] :
        o \in [ {"location_preference", "cuisine_preferences", "budget_min",
                 "budget_max", "attendee_count"} -> Presence ] }

InitPartial ==
    /\ score_call \in { [pc |-> "called", restaurant |-> r, parsed_input |-> c] :
                          r \in PartialCandidates, c \in PartialCriteria }
    /\ OPENAI_API_KEY = TRUE
    /\ embedding_cache = << >>
    /\ score_log = << >>
    /\ PlannerOff
    /\ StoreEmpty
    /\ GenerationIdle
    /\ BookingsEmpty
    /\ CallIdle

ScorePartial(v, similarity) ==
    /\ score_call.pc = "called"
    /\ score_call' =
          [pc |-> "returned", variant |-> v,
           restaurant |-> score_call.restaurant,
           parsed_input |-> score_call.parsed_input,
           similarity |-> similarity,
           out |-> score_restaurant_partial(v, score_call.restaurant,
                                            score_call.parsed_input, similarity)]
    /\ UNCHANGED <<plannerVars, storeVars, routeVars, generation, bookings, call, OPENAI_API_KEY,
                   embedding_cache, score_log>>

NextPartial ==
    \/ ScorePartial("agentic_ai", 0)
    \/ \E similarity \in Similarities : ScorePartial("services", similarity)

SpecPartial == InitPartial /\ [][NextPartial]_vars

-----------------------------------------------------------------------------
(* SpecEmbed: calls of score_restaurant in one process, one after the other, *)
(* the embedding back-end answering or failing as it likes                    *)

EmbedCandidates ==
    { [name |-> <<"A">>, cuisine |-> cs, price_level |-> "$", rating |-> 45] :
        cs \in { << <<"a">> >>, << <<"B">> >> } }

EmbedCriteria ==
    { [location_preference |-> <<"c">>, cuisine_preferences |-> cs,
       budget_min |-> 0, budget_max |-> 1000, attendee_count |-> 4] :
        cs \in { << <<"A">> >>, <<AnyTag>> } }

Answers == {"fail"} \cup Vectors

InitEmbed ==
    /\ OPENAI_API_KEY \in BOOLEAN
    /\ embedding_cache = << >>
    /\ score_call = [pc |-> "idle"]
    /\ score_log = << >>
    /\ PlannerOff
    /\ StoreEmpty
    /\ GenerationIdle
    /\ BookingsEmpty
    /\ CallIdle

\* what the caller of score_restaurant gets
Outcome(out) ==
    IF out.raised THEN [raised |-> TRUE]
    ELSE [raised |-> FALSE, result |-> out.result]

EmbedScore(v, r, parsed_input, answers) ==
    LET args == [variant |-> v, restaurant |-> r, parsed_input |-> parsed_input]
        out  == IF v = "agentic_ai"
                  THEN [raised |-> FALSE, cache |-> embedding_cache,
                        result |-> score_restaurant(r, parsed_input)]
                  ELSE score_restaurant_embedded(r, parsed_input, embedding_cache,
                                                 OPENAI_API_KEY, answers)
    IN  /\ score_call' = [pc |-> "returned", repeat |-> args \in DOMAIN score_log,
                          args |-> args] @@ Outcome(out)
        /\ embedding_cache' = out.cache
        /\ score_log' = IF args \in DOMAIN score_log THEN score_log
                        ELSE (args :> Outcome(out)) @@ score_log
        /\ UNCHANGED <<plannerVars, storeVars, routeVars, generation, bookings, call, OPENAI_API_KEY>>

\* the agentic_ai copy asks for no embedding: one criteria record is enough for
\* its calls, which come in between those of the services copy
NextEmbed ==
    \E r \in EmbedCandidates :
        \/ \E parsed_input \in { c \in EmbedCriteria :
                                    c.cuisine_preferences # <<AnyTag>> } :
              EmbedScore("agentic_ai", r, parsed_input, <<"fail", "fail">>)
        \/ \E parsed_input \in EmbedCriteria, answers \in Answers \X Answers :
              EmbedScore("services", r, parsed_input, answers)

SpecEmbed == InitEmbed /\ [][NextEmbed]_vars

-----------------------------------------------------------------------------
(* FirebaseService: each method as a function of the collections it touches. *)
(* A value that may be None is a sequence of length 0 or 1.                  *)

MaxDislikeDocs == 2
MaxSessions == 3
MaxInflight == 2

Phones == {"p1", "p2", "p3"}
Organizers == {"p1"}
Respondents == {"p2", "p3"}
EventIds == {"e1"}
StoreEventIds == {"e1", "e2"}

Range(s) == { s[i] : i \in DOMAIN s }

\* doc_ref.set(user_data, merge=True) on users/<phone_number>
create_or_update_user(us, phone_number, user_data) ==
    [p \in DOMAIN us \cup {phone_number} |->
        IF p # phone_number THEN us[p]
        ELSE IF p \in DOMAIN us
               THEN [phone_number |-> phone_number] @@ user_data @@ us[p]
               ELSE [phone_number |-> phone_number] @@ user_data]

get_user(us, phone_number) ==
    IF phone_number \in DOMAIN us THEN <<us[phone_number]>> ELSE << >>

create_event(evs, id, event_data) ==
    [e \in DOMAIN evs \cup {id} |->
        IF e = id THEN [event_id |-> id, status |-> "created"] @@ event_data
        ELSE evs[e]]

get_event(evs, event_id) ==
    IF event_id \in DOMAIN evs THEN <<evs[event_id]>> ELSE << >>

\* doc_ref.update(update_data): the named fields are replaced, the others kept
update_event(evs, event_id, update_data) ==
    [evs EXCEPT ![event_id] = update_data @@ @]

get_confirmed_attendees(resps, event_id) ==
    SelectSeq(resps, LAMBDA d : d.event_id = event_id /\ d.attendance_confirmed = TRUE)

\* create_event_response, the query: the first document of the stream for this
\* (event_id, respondent_phone), 0 when there is none
ExistingResponse(resps, event_id, respondent_phone) ==
    LET found == { i \in DOMAIN resps :
                     /\ resps[i].event_id = event_id
                     /\ resps[i].respondent_phone = respondent_phone }
    IN  IF found = {} THEN 0 ELSE CHOOSE i \in found : \A j \in found : i <= j

\* create_event_response, the write: update the document found, or create one
WriteEventResponse(resps, existing_doc, response_data) ==
    IF existing_doc # 0
      THEN [resps EXCEPT ![existing_doc] = response_data @@ @]
      ELSE Append(resps, response_data)

create_event_response(resps, response_data) ==
    WriteEventResponse(resps,
                       ExistingResponse(resps, response_data.event_id,
                                        response_data.respondent_phone),
                       response_data)

add_restaurant_dislike(ds, dislike_data) ==
    Append(ds, [is_active |-> TRUE] @@ dislike_data)

\* dislike['id'] = doc.id
WithIds(ds) == [i \in DOMAIN ds |-> [id |-> i] @@ ds[i]]

get_user_dislikes(ds, user_phone) ==
    SelectSeq(WithIds(ds),
              LAMBDA d : /\ d.user_phone = user_phone
                         /\ "is_active" \in DOMAIN d
                         /\ d.is_active = TRUE)

\* all_dislikes.extend(get_user_dislikes(phone)) for phone in attendee_phones
RECURSIVE DislikesOf(_, _)
DislikesOf(phones, ds) ==
    IF phones = << >> THEN << >>
    ELSE get_user_dislikes(ds, Head(phones)) \o DislikesOf(Tail(phones), ds)

get_event_attendee_dislikes(resps, evs, ds, event_id) ==
    LET responses == get_confirmed_attendees(resps, event_id)
        attendee_phones == [i \in DOMAIN responses |-> responses[i].respondent_phone]
        all_phones == IF get_event(evs, event_id) # << >>
                        THEN Append(attendee_phones, evs[event_id].organizer_phone)
                        ELSE attendee_phones
    IN  DislikesOf(all_phones, ds)

update_dislike(ds, dislike_id, update_data) ==
    [ds EXCEPT ![dislike_id] = update_data @@ @]

delete_dislike_Retype(ds, dislike_id) ==
    [ds EXCEPT ![dislike_id] = [dislike_type |-> "removed"] @@ @]

\* doc_ref.update({'is_active': False})
delete_dislike(ds, dislike_id) ==
    [ds EXCEPT ![dislike_id] = [is_active |-> FALSE] @@ @]

\* a writer that keeps one document per event
save_recommendations_PerEventDoc(sessions, event_id, recommendations_data, now) ==
    LET doc  == [event_id |-> event_id, generated_at |-> now] @@ recommendations_data
        mine == { i \in DOMAIN sessions : sessions[i].event_id = event_id }
    IN  IF mine = {} THEN Append(sessions, doc)
        ELSE [sessions EXCEPT ![CHOOSE i \in mine : TRUE] = doc]

\* collection.document() is a new document; generated_at is the server time
save_recommendations(sessions, event_id, recommendations_data, now) ==
    Append(sessions, [event_id |-> event_id, generated_at |-> now] @@ recommendations_data)

\* .where('event_id', '==', event_id)
WhereEventId(sessions, event_id) ==
    SelectSeq(sessions, LAMBDA s : s.event_id = event_id)

FirstByGeneratedAt_Ascending(docs) ==
    { d \in Range(docs) : \A o \in Range(docs) : o.generated_at >= d.generated_at }

\* .order_by('generated_at', DESCENDING).limit(1): the documents that can be
\* streamed first; equal timestamps are ordered by the (random) document name
FirstByGeneratedAt(docs) ==
    { d \in Range(docs) : \A o \in Range(docs) : o.generated_at <= d.generated_at }

\* the values get_recommendations may return
get_recommendations(sessions, event_id) ==
    LET docs == WhereEventId(sessions, event_id)
    IN  IF docs = << >> THEN { << >> }
        ELSE { <<d>> : d \in FirstByGeneratedAt(docs) }

-----------------------------------------------------------------------------
(* services/ai_agent.py: AIAgentService *)

AIAgentService_init_AnyArguments(args) == TRUE

\* `def __init__(self)`: a call with a positional argument raises TypeError
AIAgentService_init(args) == Len(args) = 0

\* the argument list at both call sites: AIAgentService(firebase_service)
RouteCtorArgs == <<"firebase_service">>

MaxRecommendations == 5

MockRestaurants(location) ==
    << [restaurant_name |-> <<"The Gourmet Kitchen">>,
        address |-> location \o <<", Main Street 123">>, cuisine_type |-> "Italian"],
       [restaurant_name |-> <<"Green Leaf Bistro">>,
        address |-> location \o <<", Park Avenue 456">>, cuisine_type |-> "Mediterranean"],
       [restaurant_name |-> <<"Ocean View Seafood">>,
        address |-> location \o <<", Harbor Road 789">>, cuisine_type |-> "Seafood"],
       [restaurant_name |-> <<"Garden Fresh">>,
        address |-> location \o <<", Market Square 321">>, cuisine_type |-> "Vegetarian"],
       [restaurant_name |-> <<"Steakhouse Prime">>,
        address |-> location \o <<", Downtown Plaza 654">>, cuisine_type |-> "Steakhouse"] >>

\* f"{name}_{address}", no normalisation
ExactKey(name, address) == name \o <<"_">> \o address

\* the whole catalogue when nothing is available
generate_ai_recommendations_NeverEmpty(location, blacklisted_restaurants) ==
    LET available_restaurants ==
            SelectSeq(MockRestaurants(location),
                      LAMBDA r : ExactKey(r.restaurant_name, r.address)
                                   \notin blacklisted_restaurants)
        chosen == IF available_restaurants = << >> THEN MockRestaurants(location)
                  ELSE available_restaurants
        n == IF Len(chosen) < MaxRecommendations THEN Len(chosen)
             ELSE MaxRecommendations
    IN  [i \in 1..n |-> [rank |-> i] @@ chosen[i]]

\* the rank taken from the position in the catalogue, not among the available
generate_ai_recommendations_CatalogueRank(location, blacklisted_restaurants) ==
    LET all_restaurants_ == MockRestaurants(location)
        kept == { i \in DOMAIN all_restaurants_ :
                    ExactKey(all_restaurants_[i].restaurant_name,
                             all_restaurants_[i].address) \notin blacklisted_restaurants }
        available_restaurants ==
            SelectSeq([i \in DOMAIN all_restaurants_ |->
                          [rank |-> i] @@ all_restaurants_[i]],
                      LAMBDA r : r.rank \in kept)
        n == IF Len(available_restaurants) < MaxRecommendations
               THEN Len(available_restaurants) ELSE MaxRecommendations
    IN  SubSeq(available_restaurants, 1, n)

\* _generate_ai_recommendations: the catalogue without the blacklisted keys,
\* the first five of it numbered by enumerate(..., 1)
generate_ai_recommendations(location, blacklisted_restaurants) ==
    LET available_restaurants ==
            SelectSeq(MockRestaurants(location),
                      LAMBDA r : ExactKey(r.restaurant_name, r.address)
                                   \notin blacklisted_restaurants)
        n == IF Len(available_restaurants) < MaxRecommendations
               THEN Len(available_restaurants) ELSE MaxRecommendations
    IN  [i \in 1..n |-> [rank |-> i] @@ available_restaurants[i]]

\* the restrictions of the attendee handled last, each update replacing the set
all_dietary_restrictions_LastOnly(attendee_preferences) ==
    IF attendee_preferences = << >> THEN {}
    ELSE Range(Get(attendee_preferences[Len(attendee_preferences)],
                   "dietary_restrictions", << >>))

\* lines 33, 38: a set, updated with the list of each attendee in turn; the
\* strings are added as they are
all_dietary_restrictions(attendee_preferences) ==
    UNION { Range(Get(p, "dietary_restrictions", << >>)) :
              p \in Range(attendee_preferences) }

\* required once more attendees ask for alcohol than do not
alcohol_required_Majority(attendee_preferences) ==
    LET asking == { i \in DOMAIN attendee_preferences :
                      Get(attendee_preferences[i], "alcohol_preference",
                          "no-preference") = "alcoholic" }
    IN  2 * Cardinality(asking) > Len(attendee_preferences)

\* lines 39, 44: 'alcoholic' in alcohol_preferences
alcohol_required(attendee_preferences) ==
    \E p \in Range(attendee_preferences) :
        Get(p, "alcohol_preference", "no-preference") = "alcoholic"

\* [raised |-> TRUE] stands for the exception re-raised at line 117
generate_recommendations(event, attendee_preferences, dislikes) ==
    LET location_preferences ==
            SelectSeq(attendee_preferences,
                      LAMBDA p : Get(p, "location_override", << >>) # << >>)
        location_consensus ==
            IF location_preferences # << >>
              THEN location_preferences[1].location_override
              ELSE Get(event, "location", <<"None">>)
        active == SelectSeq(dislikes, IsActiveDislike)
        blacklisted_restaurants ==
            { ExactKey(d.restaurant_name, d.restaurant_address) : d \in Range(active) }
        excluded_restaurants ==
            [i \in DOMAIN active |->
                [restaurant_name |-> active[i].restaurant_name,
                 restaurant_address |-> active[i].restaurant_address,
                 excluded_by |-> <<active[i].user_phone>>]]
    IN  IF \E d \in Range(active) :
              ~({"restaurant_name", "restaurant_address", "user_phone"} \subseteq DOMAIN d)
          THEN [raised |-> TRUE]
          ELSE [raised |-> FALSE,
                result |->
                  [recommendations |->
                       generate_ai_recommendations(location_consensus,
                                                   blacklisted_restaurants),
                   collective_dietary_restrictions |->
                       all_dietary_restrictions(attendee_preferences),
                   alcohol_availability_required |->
                       alcohol_required(attendee_preferences),
                   location_consensus |-> location_consensus,
                   excluded_restaurants |-> excluded_restaurants]]

\* the methods class LangchainService defines
LangchainService_methods ==
    { "__init__", "get_menu_recommendations", "_fallback_menu_recommendations",
      "get_reservation_recommendations", "_fallback_reservation_recommendations",
      "chat" }

\* what a call of predict may return where predict exists: no text, text that
\* is not JSON, or a JSON object whose 'recommendations' the model chose
LLMTexts ==
    { [text |-> "empty"], [text |-> "not json"] }
      \cup { [text |-> "json", recommendations |-> recs] :
               recs \in { << >>,
                          << [rank |-> 1, restaurant_name |-> <<"X">>],
                             [rank |-> 1, restaurant_name |-> <<"Y">>] >>,
                          << [rank |-> 2, restaurant_name |-> <<"X">>] >>,
                          [i \in 1..6 |-> [rank |-> i, restaurant_name |-> <<"X">>]] } }

\* generate_recommendations_from_prompts: [list |-> ...] is the bare list of
\* the fallbacks, [recommendations |-> ...] the result dict of line 176.
\* llm: langchain_service.llm is set; answer: what predict would return
generate_recommendations_from_prompts(event, llm, answer) ==
    LET fallback == generate_ai_recommendations(Get(event, "location", <<"None">>), {})
    IN  IF ~llm THEN [list |-> fallback]
        ELSE IF "predict" \notin LangchainService_methods
          THEN [list |-> fallback]      \* AttributeError, caught at line 194
        ELSE IF answer.text = "empty" THEN [list |-> fallback]
        ELSE IF answer.text = "not json"
          THEN [recommendations |-> fallback, ai_model_used |-> "gpt-3.5-turbo"]
        ELSE IF answer.recommendations = << >>     \* obj.get(...) or obj
          THEN [recommendations |-> [recommendations |-> << >>],
                ai_model_used |-> "gpt-3.5-turbo"]
        ELSE [recommendations |-> answer.recommendations,
              ai_model_used |-> "gpt-3.5-turbo"]

-----------------------------------------------------------------------------
(* SpecAggregate: AIAgentService.generate_recommendations on the arguments a *)
(* caller may hand it, and again once one more attendee has answered         *)

MaxAttendees == 2

AggregateEvents ==
    { [event_id |-> "e1", location |-> <<"c">>], [event_id |-> "e1"] }

\* entries with and without each optional key; the tag of a restriction as
\* users type it: "v", "V", " v"
AggregatePreferences ==
    { [phone |-> "p1"],
      [phone |-> "p1", dietary_restrictions |-> << <<"v">> >>,
       alcohol_preference |-> "no-preference", location_override |-> << >>],
      [phone |-> "p2", dietary_restrictions |-> << <<"V">>, <<"g">> >>,
       alcohol_preference |-> "alcoholic"],
      [phone |-> "p2", dietary_restrictions |-> << <<" ", "v">> >>,
       alcohol_preference |-> "non-alcoholic", location_override |-> <<"d">>],
      [phone |-> "p3", dietary_restrictions |-> << >>,
       alcohol_preference |-> "alcoholic", location_override |-> <<"c">>],
      [phone |-> "p3", dietary_restrictions |-> << <<"g">> >>] }

\* records keyed by name and address only, and records keyed by location_id only
AggregateDislikes ==
    { [user_phone |-> "p1", restaurant_name |-> <<"The Gourmet Kitchen">>,
       restaurant_address |-> <<"c", ", Main Street 123">>, is_active |-> TRUE],
      [user_phone |-> "p3", restaurant_name |-> <<"Green Leaf Bistro">>,
       restaurant_address |-> <<"c", ", Park Avenue 456">>],
      [user_phone |-> "p2", location_id |-> "L1", is_active |-> TRUE],
      [user_phone |-> "p2", location_id |-> "L1", is_active |-> FALSE] }

InitAggregate ==
    /\ generation \in
          { [pc |-> "called", event |-> e, attendee_preferences |-> ps, dislikes |-> ds] :
              e \in AggregateEvents,
              ps \in SeqsUpTo(AggregatePreferences, MaxAttendees),
              ds \in SeqsUpTo(AggregateDislikes, MaxDislikes) }
    /\ BookingsEmpty
    /\ CallIdle
    /\ PlannerOff
    /\ StoreEmpty
    /\ ScoreIdle

\* generate_recommendations(event, attendee_preferences, dislikes) returns or raises
Generate ==
    /\ generation.pc = "called"
    /\ generation' =
          [pc |-> "returned", event |-> generation.event,
           attendee_preferences |-> generation.attendee_preferences,
           dislikes |-> generation.dislikes,
           out |-> generate_recommendations(generation.event,
                                            generation.attendee_preferences,
                                            generation.dislikes)]
    /\ UNCHANGED <<plannerVars, storeVars, routeVars, scoreVars, bookings, call>>

\* the next call for the event, one more attendee having answered
GenerateWithOneMore(p) ==
    /\ generation.pc = "returned"
    /\ Len(generation.attendee_preferences) <= MaxAttendees
    /\ generation' =
          [pc |-> "returned", event |-> generation.event,
           attendee_preferences |-> Append(generation.attendee_preferences, p),
           dislikes |-> generation.dislikes,
           out |-> generate_recommendations(generation.event,
                                            Append(generation.attendee_preferences, p),
                                            generation.dislikes)]
    /\ UNCHANGED <<plannerVars, storeVars, routeVars, scoreVars, bookings, call>>

NextAggregate ==
    \/ Generate
    \/ \E p \in AggregatePreferences : GenerateWithOneMore(p)

SpecAggregate == InitAggregate /\ [][NextAggregate]_vars

-----------------------------------------------------------------------------
(* What the two generation routes compute between their reads and their save *)

\* the attendee_preferences list: one entry per confirmed attendee that has a
\* profile, then the organizer's
AttendeePreferences(us, event, confirmed_attendees) ==
    LET known == SelectSeq(confirmed_attendees,
                           LAMBDA a : get_user(us, a.respondent_phone) # << >>)
        entries ==
            [i \in DOMAIN known |->
                [phone |-> known[i].respondent_phone,
                 dietary_restrictions |->
                     Get(us[known[i].respondent_phone], "dietary_restrictions", << >>),
                 alcohol_preference |->
                     Get(us[known[i].respondent_phone], "alcohol_preference",
                         "no-preference"),
                 location_override |->
                     Get(known[i], "location_preference_override", << >>)]]
    IN  IF get_user(us, event.organizer_phone) # << >>
          THEN Append(entries,
                      [phone |-> event.organizer_phone,
                       dietary_restrictions |->
                           Get(us[event.organizer_phone], "dietary_restrictions", << >>),
                       alcohol_preference |->
                           Get(us[event.organizer_phone], "alcohol_preference",
                               "no-preference")])
          ELSE entries

\* the result of generate_recommendations for an event, as both routes call it
GenerationFor(us, evs, resps, ds, event, confirmed_attendees) ==
    generate_recommendations(event,
                             AttendeePreferences(us, event, confirmed_attendees),
                             get_event_attendee_dislikes(resps, evs, ds, event.event_id))

\* submit_response lines 67-183: the sessions after the automatic generation.
\* An exception anywhere in the block is logged and swallowed; the outbound
\* call step that follows the save raises in OutboundCallService() and is
\* swallowed as well, so it writes nothing.
AutoGenerate(us, evs, resps, ds, sessions, event, confirmed_attendees, now) ==
    IF ~AIAgentService_init(RouteCtorArgs) THEN sessions
    ELSE LET g == GenerationFor(us, evs, resps, ds, event, confirmed_attendees)
         IN  IF g.raised THEN sessions
             ELSE save_recommendations(sessions, event.event_id, g.result, now)

\* `if expected_count and len(confirmed_attendees) >= expected_count`;
\* an expected_attendee_count of None is held as 0, which is as false as None
ThresholdMet(event, confirmed_attendees) ==
    /\ Get(event, "expected_attendee_count", 0) # 0
    /\ Len(confirmed_attendees) >= event.expected_attendee_count

-----------------------------------------------------------------------------
(* SpecOrder: the responses of an event in the order the query of            *)
(* get_confirmed_attendees streams them. The query has no order_by, so       *)
(* Firestore streams by document name; the name of a new response is the     *)
(* random id of .document(). Here the sequence event_responses is in         *)
(* document-name order and a new document takes any place in it. In the      *)
(* other specifications a new document is placed last: they count the        *)
(* documents and look at none of them by position.                           *)

InsertAt(docs, pos, d) ==
    SubSeq(docs, 1, pos - 1) \o <<d>> \o SubSeq(docs, pos, Len(docs))

\* create_event_response for a respondent without a record: lines 141-145
create_event_response_named(resps, response_data, pos, now) ==
    InsertAt(resps, pos, [responded_at |-> now] @@ response_data)

OrderProfiles ==
    [p \in Phones |-> [phone_number |-> p, dietary_restrictions |-> << >>,
                       alcohol_preference |-> "no-preference"]]

OrderEvents ==
    { [e \in {"e1"} |-> [event_id |-> "e1", status |-> "created",
                         organizer_phone |-> "p1", location |-> <<"c">>]],
      [e \in {"e1"} |-> [event_id |-> "e1", status |-> "created",
                         organizer_phone |-> "p1"]] }

\* location_preference_override of a response: absent, empty, or a place
Overrides == { "absent", "empty", "d", "x" }

OrderResponse(p, o) ==
    (IF o = "absent" THEN << >>
     ELSE [location_preference_override |-> IF o = "empty" THEN << >> ELSE <<o>>])
      @@ [event_id |-> "e1", respondent_phone |-> p, attendance_confirmed |-> TRUE]

InitOrder ==
    /\ users = OrderProfiles
    /\ events \in OrderEvents
    /\ event_responses = << >>
    /\ restaurant_dislikes = << >>
    /\ restaurant_recommendations = << >>
    /\ clock = 0
    /\ requests = << >>
    /\ last_get = [called |-> FALSE]
    /\ http = [status |-> 0]
    /\ PlannerOff
    /\ GenerationIdle
    /\ BookingsEmpty
    /\ CallIdle
    /\ ScoreIdle

\* a respondent answers for the first time
RespondNamed(p, o, pos) ==
    /\ generation.pc = "idle"
    /\ Len(event_responses) < MaxAttendees
    /\ ExistingResponse(event_responses, "e1", p) = 0
    /\ pos \in 1..(Len(event_responses) + 1)
    /\ event_responses' =
          create_event_response_named(event_responses, OrderResponse(p, o), pos, clock)
    /\ clock' = clock + 1
    /\ UNCHANGED <<plannerVars, scoreVars, generation, bookings, call, users, events,
                   restaurant_dislikes, restaurant_recommendations, routeVars>>

\* generate_recommendations on what the routes read for the event
GenerateForEvent ==
    /\ generation.pc = "idle"
    /\ LET event == events["e1"]
           attendee_preferences ==
               AttendeePreferences(users, event,
                                   get_confirmed_attendees(event_responses, "e1"))
       IN  generation' =
             [pc |-> "returned", event |-> event,
              attendee_preferences |-> attendee_preferences,
              dislikes |-> << >>,
              out |-> generate_recommendations(event, attendee_preferences, << >>)]
    /\ UNCHANGED <<plannerVars, scoreVars, storeVars, routeVars, bookings, call>>

NextOrder ==
    \/ \E p \in Respondents, o \in Overrides, pos \in 1..MaxAttendees :
          RespondNamed(p, o, pos)
    \/ GenerateForEvent

SpecOrder == InitOrder /\ [][NextOrder]_vars

-----------------------------------------------------------------------------
(* Request payloads *)

\* POST /onboarding and the onboarding fields of a first response
OnboardingData ==
    { [dietary_restrictions |-> <<"vegetarian">>, alcohol_preference |-> "no-preference"] }

\* what create_event stores once the prompt is parsed; the count is a positive
\* integer or None (0)
EventData ==
    { [organizer_phone |-> o, location |-> <<"Amsterdam">>,
       occasion_description |-> <<"dinner">>, expected_attendee_count |-> n] :
        o \in Organizers, n \in {0, 1, 2} }

\* POST /<phone>/dislikes: the first mock restaurant as the service spells it,
\* and the same restaurant typed in lower case
DislikeData ==
    { [restaurant_name |-> n, restaurant_address |-> a, dislike_type |-> "permanent"] :
        n \in { <<"The Gourmet Kitchen">>, <<"the gourmet kitchen">> },
        a \in { <<"Amsterdam", ", Main Street 123">> } }

\* the response_data of submit_response (lines 46-51)
ResponseData(event_id, respondent_phone) ==
    [event_id |-> event_id, respondent_phone |-> respondent_phone,
     attendance_confirmed |-> TRUE]

\* the bodies save_recommendations is called with: results of
\* generate_recommendations for an empty and for a one-entry blacklist
SessionData ==
    { generate_recommendations(
          [location |-> <<"Amsterdam">>], << >>,
          ds).result :
        ds \in { << >>,
                 << [user_phone |-> "p1", restaurant_name |-> <<"The Gourmet Kitchen">>,
                     restaurant_address |-> <<"Amsterdam", ", Main Street 123">>,
                     is_active |-> TRUE] >> } }

-----------------------------------------------------------------------------
(* Spec: the route handlers, one request at a time *)

Init ==
    /\ PlannerOff
    /\ StoreEmpty
    /\ GenerationIdle
    /\ BookingsEmpty
    /\ CallIdle
    /\ ScoreIdle

\* POST /api/users/onboarding
UserOnboarding(p) ==
    /\ \E data \in OnboardingData :
          users' = create_or_update_user(users, p, data)
    /\ UNCHANGED <<plannerVars, scoreVars, generation, bookings, call, events, event_responses, restaurant_dislikes,
                   restaurant_recommendations, clock, routeVars>>

\* POST /api/events: 404 unless the organizer has a profile
CreateEvent(data) ==
    /\ get_user(users, data.organizer_phone) # << >>
    /\ \E id \in EventIds \ DOMAIN events :
          events' = create_event(events, id, data)
    /\ UNCHANGED <<plannerVars, scoreVars, generation, bookings, call, users, event_responses, restaurant_dislikes,
                   restaurant_recommendations, clock, routeVars>>

\* POST /api/events/<event_id>/responses, run from entry to return
SubmitResponse(event_id, respondent_phone) ==
    /\ get_event(events, event_id) # << >>
    /\ \E data \in OnboardingData, now \in {clock, clock + 1} :
        LET event     == events[event_id]
            users1    == IF get_user(users, respondent_phone) = << >>
                           THEN create_or_update_user(users, respondent_phone, data)
                           ELSE users
            resps1    == create_event_response(event_responses,
                                               ResponseData(event_id, respondent_phone))
            confirmed == get_confirmed_attendees(resps1, event_id)
            met       == ThresholdMet(event, confirmed)
            events1   == IF met
                           THEN update_event(events, event_id,
                                             [status |-> "ready_for_booking"])
                           ELSE events
            sessions1 == IF met
                           THEN AutoGenerate(users1, events1, resps1, restaurant_dislikes,
                                             restaurant_recommendations, event,
                                             confirmed, now)
                           ELSE restaurant_recommendations
        IN  /\ users' = users1
            /\ event_responses' = resps1
            /\ events' = events1
            /\ restaurant_recommendations' = sessions1
            /\ clock' = IF sessions1 = restaurant_recommendations THEN clock ELSE now
    /\ UNCHANGED <<plannerVars, scoreVars, generation, bookings, call, restaurant_dislikes, routeVars>>

\* POST /api/users/<phone>/dislikes: 404 unless the user has a profile
AddDislike(p, data) ==
    /\ get_user(users, p) # << >>
    /\ Len(restaurant_dislikes) < MaxDislikeDocs
    /\ restaurant_dislikes' =
          add_restaurant_dislike(restaurant_dislikes, [user_phone |-> p] @@ data)
    /\ UNCHANGED <<plannerVars, scoreVars, generation, bookings, call, users, events, event_responses,
                   restaurant_recommendations, clock, routeVars>>

\* DELETE /api/users/<phone>/dislikes/<dislike_id>: the phone must have a
\* profile; the record is not required to be that user's
RemoveDislike(p, dislike_id) ==
    /\ get_user(users, p) # << >>
    /\ dislike_id \in DOMAIN restaurant_dislikes
    /\ restaurant_dislikes' = delete_dislike(restaurant_dislikes, dislike_id)
    /\ UNCHANGED <<plannerVars, scoreVars, generation, bookings, call, users, events, event_responses,
                   restaurant_recommendations, clock, routeVars>>

\* PATCH /api/users/<phone>/dislikes/<dislike_id> with is_active in the body
UpdateDislike(p, dislike_id, is_active) ==
    /\ get_user(users, p) # << >>
    /\ dislike_id \in DOMAIN restaurant_dislikes
    /\ restaurant_dislikes' =
          update_dislike(restaurant_dislikes, dislike_id, [is_active |-> is_active])
    /\ UNCHANGED <<plannerVars, scoreVars, generation, bookings, call, users, events, event_responses,
                   restaurant_recommendations, clock, routeVars>>

\* the handler without its test for confirmed attendees
GenerateOutcome_Unchecked(us, evs, resps, ds, event_id) ==
    IF get_event(evs, event_id) = << >> THEN [status |-> 404]
    ELSE LET g == GenerationFor(us, evs, resps, ds, evs[event_id],
                                get_confirmed_attendees(resps, event_id))
         IN  IF g.raised THEN [status |-> 500]
             ELSE [status |-> 201, result |-> g.result]

\* POST /api/ai-agent/events/<event_id>/generate-recommendations, up to the
\* save: the status the handler answers with and, for 201, what it saves. The
\* service is constructed first, inside the handler's try; when that raises
\* the handler answers 500.
GenerateOutcome(us, evs, resps, ds, event_id) ==
    IF ~AIAgentService_init(RouteCtorArgs) THEN [status |-> 500]
    ELSE IF get_event(evs, event_id) = << >> THEN [status |-> 404]
    ELSE IF get_confirmed_attendees(resps, event_id) = << >> THEN [status |-> 400]
    ELSE LET g == GenerationFor(us, evs, resps, ds, evs[event_id],
                                get_confirmed_attendees(resps, event_id))
         IN  IF g.raised THEN [status |-> 500]
             ELSE [status |-> 201, result |-> g.result]

GenerateRecommendations(event_id) ==
    LET out == GenerateOutcome(users, events, event_responses, restaurant_dislikes,
                               event_id)
    IN  /\ http' = [event_id |-> event_id, status |-> out.status]
        /\ IF out.status = 201
             THEN /\ Len(restaurant_recommendations) < MaxSessions
                  /\ \E now \in {clock, clock + 1} :
                        /\ restaurant_recommendations' =
                              save_recommendations(restaurant_recommendations, event_id,
                                                   out.result, now)
                        /\ clock' = now
                  /\ events' = update_event(events, event_id,
                                            [status |-> "ready_for_booking"])
             ELSE UNCHANGED <<events, restaurant_recommendations, clock>>
        /\ UNCHANGED <<plannerVars, scoreVars, generation, bookings, call, users, event_responses,
                       restaurant_dislikes, requests, last_get>>

Next ==
    \/ \E p \in Phones : UserOnboarding(p)
    \/ \E data \in EventData : CreateEvent(data)
    \/ \E e \in EventIds, p \in Phones : SubmitResponse(e, p)
    \/ \E p \in Phones, data \in DislikeData : AddDislike(p, data)
    \/ \E p \in Phones, id \in 1..MaxDislikeDocs : RemoveDislike(p, id)
    \/ \E p \in Phones, id \in 1..MaxDislikeDocs, b \in BOOLEAN : UpdateDislike(p, id, b)
    \/ \E e \in EventIds : GenerateRecommendations(e)

Spec == Init /\ [][Next]_vars

-----------------------------------------------------------------------------
(* SpecRace: submit_response as the sequence of Firestore calls it makes,   *)
(* several requests in flight. The organizer onboards and creates the       *)
(* event; the respondents get their profile from their first response.      *)

RequestIds == 1..MaxInflight

\* the local `event` of submit_response (line 24), as far as the handler reads
\* it afterwards
EventLocals(event) ==
    [k \in DOMAIN event \cap {"event_id", "organizer_phone", "expected_attendee_count",
                              "location", "occasion_description"} |-> event[k]]

\* lines 14-53 up to the query of create_event_response (firebase_service.py
\* 127-131): validation, get_event, the profile, the look-up of a stored
\* response
SubmitBegin(r, event_id, respondent_phone) ==
    /\ r \notin DOMAIN requests
    /\ \A q \in RequestIds : q < r => q \in DOMAIN requests
    /\ get_event(events, event_id) # << >>
    /\ \E data \in OnboardingData :
          users' = IF get_user(users, respondent_phone) = << >>
                     THEN create_or_update_user(users, respondent_phone, data)
                     ELSE users
    /\ requests' =
          [q \in DOMAIN requests \cup {r} |->
              IF q # r THEN requests[q]
              ELSE [event |-> EventLocals(events[event_id]),
                    respondent_phone |-> respondent_phone,
                    existing_doc |-> ExistingResponse(event_responses, event_id,
                                                      respondent_phone),
                    confirmed_attendees |-> << >>,
                    pc |-> "write"]]
    /\ UNCHANGED <<plannerVars, scoreVars, generation, bookings, call, events, event_responses, restaurant_dislikes,
                   restaurant_recommendations, clock, last_get, http>>

\* firebase_service.py 133-145: update the document found, or create one
SubmitWrite(r) ==
    /\ r \in DOMAIN requests
    /\ requests[r].pc = "write"
    /\ event_responses' =
          WriteEventResponse(event_responses, requests[r].existing_doc,
                             ResponseData(requests[r].event.event_id,
                                          requests[r].respondent_phone))
    /\ requests' = [requests EXCEPT ![r].pc = "check"]
    /\ UNCHANGED <<plannerVars, scoreVars, generation, bookings, call, users, events, restaurant_dislikes,
                   restaurant_recommendations, clock, last_get, http>>

\* lines 56-64: count the confirmed attendees; at or above the expected count
\* set the status and go on to generate, otherwise return
SubmitCheck(r) ==
    /\ r \in DOMAIN requests
    /\ requests[r].pc = "check"
    /\ LET event == requests[r].event
           confirmed == get_confirmed_attendees(event_responses, event.event_id)
       IN  IF ThresholdMet(event, confirmed)
             THEN /\ events' = update_event(events, event.event_id,
                                            [status |-> "ready_for_booking"])
                  /\ requests' = [requests EXCEPT ![r].pc = "generate",
                                                  ![r].confirmed_attendees = confirmed]
             ELSE /\ events' = events
                  /\ requests' = [requests EXCEPT ![r].pc = "done"]
    /\ UNCHANGED <<plannerVars, scoreVars, generation, bookings, call, users, event_responses, restaurant_dislikes,
                   restaurant_recommendations, clock, last_get, http>>

\* lines 66-183: the automatic generation and its save
SubmitGenerate(r) ==
    /\ r \in DOMAIN requests
    /\ requests[r].pc = "generate"
    /\ \E now \in {clock, clock + 1} :
          /\ restaurant_recommendations' =
                AutoGenerate(users, events, event_responses, restaurant_dislikes,
                             restaurant_recommendations, requests[r].event,
                             requests[r].confirmed_attendees, now)
          /\ clock' = IF restaurant_recommendations' = restaurant_recommendations
                        THEN clock ELSE now
    /\ requests' = [requests EXCEPT ![r].pc = "done"]
    /\ UNCHANGED <<plannerVars, scoreVars, generation, bookings, call, users, events, event_responses, restaurant_dislikes,
                   last_get, http>>

\* lines 185-188: 201 with the stored response
SubmitReturn(r) ==
    /\ r \in DOMAIN requests
    /\ requests[r].pc = "done"
    /\ requests' = [q \in DOMAIN requests \ {r} |-> requests[q]]
    /\ UNCHANGED <<plannerVars, scoreVars, generation, bookings, call, storeVars, last_get, http>>

NextRace ==
    \/ \E p \in Organizers : UserOnboarding(p)
    \/ \E data \in EventData : CreateEvent(data)
    \/ \E r \in RequestIds, e \in EventIds, p \in Respondents : SubmitBegin(r, e, p)
    \/ \E r \in RequestIds : SubmitWrite(r)
    \/ \E r \in RequestIds : SubmitCheck(r)
    \/ \E r \in RequestIds : SubmitGenerate(r)
    \/ \E r \in RequestIds : SubmitReturn(r)

SpecRace == Init /\ [][NextRace]_vars

-----------------------------------------------------------------------------
(* SpecStore: calls of save_recommendations and get_recommendations *)

SaveRecommendations(event_id, data) ==
    /\ Len(restaurant_recommendations) < MaxSessions
    /\ \E now \in {clock, clock + 1} :
          /\ restaurant_recommendations' =
                save_recommendations(restaurant_recommendations, event_id, data, now)
          /\ clock' = now
    /\ last_get' = [called |-> FALSE]
    /\ UNCHANGED <<plannerVars, scoreVars, generation, bookings, call, users, events, event_responses, restaurant_dislikes,
                   requests, http>>

GetRecommendations(event_id) ==
    /\ \E result \in get_recommendations(restaurant_recommendations, event_id) :
          last_get' = [called |-> TRUE, event_id |-> event_id, result |-> result]
    /\ UNCHANGED <<plannerVars, scoreVars, generation, bookings, call, storeVars, requests, http>>

NextStore ==
    \/ \E e \in StoreEventIds, data \in SessionData : SaveRecommendations(e, data)
    \/ \E e \in StoreEventIds : GetRecommendations(e)

SpecStore == Init /\ [][NextStore]_vars

-----------------------------------------------------------------------------
(* SpecCancel: events that are cancelled while responses still come in *)

\* DELETE /api/events/<event_id>: 404 unless the event exists
DeleteEvent(event_id) ==
    /\ get_event(events, event_id) # << >>
    /\ events' = update_event(events, event_id, [status |-> "cancelled"])
    /\ UNCHANGED <<plannerVars, scoreVars, generation, bookings, call, users, event_responses,
                   restaurant_dislikes, restaurant_recommendations, clock, routeVars>>

NextCancel ==
    \/ \E p \in Phones : UserOnboarding(p)
    \/ \E data \in EventData : CreateEvent(data)
    \/ \E e \in EventIds, p \in Phones : SubmitResponse(e, p)
    \/ \E e \in EventIds : DeleteEvent(e)

SpecCancel == Init /\ [][NextCancel]_vars

-----------------------------------------------------------------------------
(* SpecBook: POST /events/<event_id>/book on the sessions save_recommendations *)
(* has stored                                                                  *)

MaxBookings == 2
MaxBookSessions == 2

\* create_booking: a new document, its id returned with it
create_booking(bks, booking_data) ==
    Append(bks, [id |-> Len(bks) + 1, booking_status |-> "pending",
                 calendar_invites_sent |-> FALSE] @@ booking_data)

\* the first entry when no entry has the rank
selected_restaurant_FirstWhenMissing(recommendations, rank) ==
    LET found == { i \in DOMAIN recommendations : recommendations[i].rank = rank }
    IN  IF recommendations = << >> THEN << >>
        ELSE IF found = {} THEN <<recommendations[1]>>
        ELSE <<recommendations[CHOOSE i \in found : \A j \in found : i <= j]>>

\* lines 40-44: the first entry whose rank is the requested one, or None
selected_restaurant(recommendations, rank) ==
    LET found == { i \in DOMAIN recommendations : recommendations[i].rank = rank }
    IN  IF found = {} THEN << >>
        ELSE <<recommendations[CHOOSE i \in found : \A j \in found : i <= j]>>

\* BookingService.attempt_booking: the mock grants every booking, but reads the
\* first preferred time slot of the event on its way; the IndexError of an
\* empty list is caught and reported as a failure
attempt_booking(restaurant, event, party_size) ==
    IF Get(event, "preferred_time_slots", <<"None">>) = << >>
      THEN [success |-> FALSE]
      ELSE [success |-> TRUE, party_size |-> party_size]

\* book_restaurant: the answer, and with 201 the booking_data of lines 89-100.
\* recommendations_doc is what get_recommendations returned
book_restaurant(evs, resps, event_id, data, recommendations_doc) ==
    IF "recommendation_rank" \notin DOMAIN data THEN [status |-> 400]
    ELSE IF get_event(evs, event_id) = << >> THEN [status |-> 404]
    ELSE IF recommendations_doc = << >> THEN [status |-> 404]
    ELSE LET sel == selected_restaurant(recommendations_doc[1].recommendations,
                                        data.recommendation_rank)
             party_size == Len(get_confirmed_attendees(resps, event_id)) + 1
         IN  IF sel = << >> THEN [status |-> 404]
             ELSE IF ~attempt_booking(sel[1], get_event(evs, event_id)[1],
                                      party_size).success
               THEN [status |-> 400]
             ELSE [status |-> 201,
                   booking_data |->
                     [event_id |-> event_id,
                      restaurant_name |-> sel[1].restaurant_name,
                      restaurant_address |-> sel[1].address,
                      party_size |-> party_size]]

\* the body of the request: without a rank, or with one
BookData == { << >> } \cup { [recommendation_rank |-> r] : r \in {0, 1, 5, 6} }

\* the event of a prompt that named a time or named none; "e2" is the id of
\* no event
BookEvents ==
    { [e \in {"e1"} |-> [event_id |-> "e1", status |-> "created",
                         organizer_phone |-> "p1", location |-> <<"Amsterdam">>,
                         preferred_time_slots |-> slots]] :
        slots \in { << >>, <<"19:00">> } }

InitBook ==
    /\ users = << >>
    /\ events \in BookEvents
    /\ event_responses = << >>
    /\ restaurant_dislikes = << >>
    /\ restaurant_recommendations = << >>
    /\ clock = 0
    /\ requests = << >>
    /\ last_get = [called |-> FALSE]
    /\ http = [status |-> 0]
    /\ PlannerOff
    /\ GenerationIdle
    /\ BookingsEmpty
    /\ CallIdle
    /\ ScoreIdle

\* POST /api/events/<event_id>/book, run from entry to return
BookRestaurant(event_id, data) ==
    \E recommendations_doc \in get_recommendations(restaurant_recommendations, event_id) :
        LET answer == book_restaurant(events, event_responses, event_id, data,
                                      recommendations_doc)
        IN  /\ http' = [route |-> "book", event_id |-> event_id, data |-> data,
                        status |-> answer.status]
            /\ IF answer.status = 201
                 THEN /\ Len(bookings) < MaxBookings
                      /\ bookings' = create_booking(bookings, answer.booking_data)
                      /\ events' = update_event(events, event_id,
                                                [status |-> "booked",
                                                 booking_id |-> Len(bookings) + 1])
                 ELSE UNCHANGED <<bookings, events>>
            /\ UNCHANGED <<plannerVars, scoreVars, generation, call, users, event_responses,
                           restaurant_dislikes, restaurant_recommendations, clock,
                           requests, last_get>>

NextBook ==
    \/ \E e \in StoreEventIds, data \in SessionData :
          /\ Len(restaurant_recommendations) < MaxBookSessions
          /\ SaveRecommendations(e, data)
    \/ \E e \in StoreEventIds, data \in BookData : BookRestaurant(e, data)

SpecBook == InitBook /\ [][NextBook]_vars

-----------------------------------------------------------------------------
(* OutboundCallService: one reservation call and the wait for its outcome.   *)
(* Time is time.monotonic() in ticks. None is the empty sequence, a value v  *)
(* is <<v>>.                                                                  *)

MaxTimeout == 3
MaxPollTime == 1
MaxPollInterval == 2

\* what GET /convai/conversations/<id> turns out as: a RequestException, or
\* conversation data that _parse_conversation_outcome reads as accepted,
\* declined or not yet decided; sms_ok is whether send_confirmation succeeds
Fetches ==
    { [ok |-> FALSE] } \cup
    { [ok |-> TRUE, accepted |-> a, sms_ok |-> s] :
        a \in { << >>, <<TRUE>>, <<FALSE>> }, s \in BOOLEAN }

\* what POST /convai/.../outbound-call turns out as: a RequestException, or a
\* body with or without success and conversation_id
Posts ==
    { [ok |-> FALSE] } \cup
    { [ok |-> TRUE, success |-> s, conversation_id |-> c] : s \in BOOLEAN, c \in BOOLEAN }

\* the workflow is attempted by every fetch
sms_attempted_EveryFetch(fetch, initiate_sms_sequence) ==
    fetch.ok /\ fetch.accepted # << >>

\* lines 555-569: _attempt_send_confirmation is called
sms_attempted(fetch, initiate_sms_sequence) ==
    fetch.ok /\ initiate_sms_sequence /\ fetch.accepted # << >>

get_conversation_outcome(fetch, initiate_sms_sequence) ==
    IF ~fetch.ok
      THEN [success |-> FALSE, sms_confirmation_sent |-> FALSE]
      ELSE [success |-> TRUE,
            reservation_accepted |-> fetch.accepted,
            sms_confirmation_sent |->
                sms_attempted(fetch, initiate_sms_sequence) /\ fetch.sms_ok]

\* the time-out leaves the answer of the last poll as it is
timeout_response_AsPolled(last_response) ==
    LET base == IF last_response = << >> THEN [success |-> FALSE] ELSE last_response[1]
    IN  [timeout |-> TRUE] @@ base @@ [reservation_accepted |-> << >>]

\* lines 507-517
timeout_response(last_response) ==
    LET base == IF last_response = << >> THEN [success |-> FALSE] ELSE last_response[1]
    IN  [success |-> FALSE, timeout |-> TRUE] @@ base @@ [reservation_accepted |-> << >>]

\* lines 493-503: the second fetch, which may start the SMS workflow
final_response(fetch) ==
    LET r == get_conversation_outcome(fetch, TRUE)
        reservation_status == Get(r, "reservation_accepted", << >>)
    IN  IF reservation_status # << >>
          THEN [success |-> reservation_status[1]] @@ r
          ELSE r

\* everything _await_conversation_outcome can return
AwaitOutcomes ==
    { get_conversation_outcome([ok |-> FALSE], FALSE) } \cup
    { final_response(fetch) : fetch \in Fetches } \cup
    { timeout_response(last) :
        last \in { << >>,
                   <<get_conversation_outcome(
                        [ok |-> TRUE, accepted |-> << >>, sms_ok |-> FALSE], FALSE)>> } }

\* lines 223-252: the result before any outcome is known
initial_result(post, assume_confirmed) ==
    [success |-> post.success,
     conversation_id |-> post.conversation_id,
     reservation_accepted |-> << >>,
     assume_confirmed |-> assume_confirmed,
     sms_confirmation_sent |-> FALSE]

\* lines 254-272
auto_confirmed(result, sms_ok) ==
    [reservation_accepted |-> <<TRUE>>, sms_confirmation_sent |-> sms_ok] @@ result

\* lines 273-280: the branch that waits
waits(result, assume_confirmed, wait_for_outcome) ==
    /\ ~(assume_confirmed /\ result.success)
    /\ wait_for_outcome
    /\ result.success
    /\ result.conversation_id

\* lines 292-340
awaited_result(result, final_outcome) ==
    IF Get(final_outcome, "timeout", FALSE)
      THEN [success |-> FALSE, reservation_accepted |-> << >>, timeout |-> TRUE,
            awaited_outcome |-> TRUE] @@ result
    ELSE IF ~final_outcome.success /\ Get(final_outcome, "reservation_accepted", << >>) = << >>
      THEN [success |-> FALSE, reservation_accepted |-> << >>,
            awaited_outcome |-> TRUE] @@ result
    ELSE LET reservation_accepted == Get(final_outcome, "reservation_accepted", << >>)
         IN  [reservation_accepted |-> reservation_accepted,
              success |-> reservation_accepted = <<TRUE>>,
              sms_confirmation_sent |-> Get(final_outcome, "sms_confirmation_sent",
                                            result.sms_confirmation_sent),
              awaited_outcome |-> TRUE] @@ result

\* make_reservation_call, given what the wait returns when there is one
make_reservation_call(valid, assume_confirmed, wait_for_outcome, post, sms_ok, final_outcome) ==
    IF ~valid THEN [success |-> FALSE, reservation_accepted |-> <<FALSE>>]
    ELSE IF ~post.ok
      THEN [success |-> FALSE, reservation_accepted |-> <<FALSE>>,
            assume_confirmed |-> assume_confirmed, sms_confirmation_sent |-> FALSE]
    ELSE LET result == initial_result(post, assume_confirmed)
         IN  IF assume_confirmed /\ result.success THEN auto_confirmed(result, sms_ok)
             ELSE IF waits(result, assume_confirmed, wait_for_outcome)
               THEN awaited_result(result, final_outcome)
             ELSE result

\* the arguments of a call: whether reservation_details has the required
\* fields, the two flags, and the answers of ElevenLabs and of Twilio
CallInputs ==
    [valid : BOOLEAN, assume_confirmed : BOOLEAN, wait_for_outcome : BOOLEAN,
     post : Posts, sms_ok : BOOLEAN]

Waiting(in) ==
    /\ in.valid
    /\ in.post.ok
    /\ waits(initial_result(in.post, in.assume_confirmed), in.assume_confirmed,
             in.wait_for_outcome)

InitCall ==
    /\ PlannerOff
    /\ StoreEmpty
    /\ GenerationIdle
    /\ BookingsEmpty
    /\ CallIdle
    /\ ScoreIdle

\* the call returns: `events` is what happened on the way, in order
CallReturned(in, final_outcome, now, trail, sms_attempts) ==
    [pc |-> "returned", in |-> in, now |-> now, events |-> trail,
     sms_attempts |-> sms_attempts, final_outcome |-> final_outcome,
     result |-> make_reservation_call(in.valid, in.assume_confirmed, in.wait_for_outcome,
                                      in.post, in.sms_ok,
                                      IF final_outcome = << >> THEN << >>
                                      ELSE final_outcome[1])]

\* make_reservation_call up to its return, or up to the entry of
\* _await_conversation_outcome, where the deadline is set (line 481)
MakeReservationCall(in, timeout_seconds, poll_interval) ==
    /\ call.pc = "idle"
    /\ call' =
         IF Waiting(in)
           THEN [pc |-> "check", in |-> in, now |-> 0, deadline |-> timeout_seconds,
                 poll_interval |-> poll_interval, last_response |-> << >>,
                 events |-> << >>, sms_attempts |-> 0]
         ELSE IF in.valid /\ in.post.ok /\ in.assume_confirmed /\ in.post.success
           THEN CallReturned(in, << >>, 0, <<"sms">>, 1)
         ELSE CallReturned(in, << >>, 0, << >>, 0)
    /\ UNCHANGED <<plannerVars, storeVars, routeVars, scoreVars, generation, bookings>>

\* lines 484-505: the deadline has not passed; one poll, which takes some time
Poll(fetch, d) ==
    /\ call.pc = "check"
    /\ call.now < call.deadline
    /\ LET response == get_conversation_outcome(fetch, FALSE)
           sms == IF sms_attempted(fetch, FALSE) THEN 1 ELSE 0
           said == IF sms = 1 THEN <<"sms">> ELSE << >>
       IN  call' =
             IF ~response.success
               THEN CallReturned(call.in, <<response>>, call.now + d,
                             call.events \o <<"failed">> \o said, call.sms_attempts + sms)
             ELSE IF response.reservation_accepted # << >>
               THEN [call EXCEPT !.pc = "final", !.now = @ + d,
                                 !.last_response = <<response>>,
                                 !.events = @ \o <<"definitive">> \o said,
                                 !.sms_attempts = @ + sms]
             ELSE [call EXCEPT !.pc = "sleep", !.now = @ + d,
                               !.last_response = <<response>>,
                               !.events = @ \o <<"undecided">> \o said,
                               !.sms_attempts = @ + sms]
    /\ UNCHANGED <<plannerVars, storeVars, routeVars, scoreVars, generation, bookings>>

\* lines 493-503: the second fetch after a definitive poll, and the return
Final(fetch, d) ==
    /\ call.pc = "final"
    /\ LET sms == IF sms_attempted(fetch, TRUE) THEN 1 ELSE 0
       IN  call' = CallReturned(call.in, <<final_response(fetch)>>, call.now + d,
                            call.events \o (IF sms = 1 THEN <<"sms">> ELSE << >>),
                            call.sms_attempts + sms)
    /\ UNCHANGED <<plannerVars, storeVars, routeVars, scoreVars, generation, bookings>>

\* line 505: time.sleep(poll_interval)
Sleep ==
    /\ call.pc = "sleep"
    /\ call' = [call EXCEPT !.pc = "check", !.now = @ + call.poll_interval]
    /\ UNCHANGED <<plannerVars, storeVars, routeVars, scoreVars, generation, bookings>>

\* lines 484, 507-517: the deadline has passed
Timeout ==
    /\ call.pc = "check"
    /\ ~(call.now < call.deadline)
    /\ call' = CallReturned(call.in, <<timeout_response(call.last_response)>>, call.now,
                        call.events \o <<"timeout">>, call.sms_attempts)
    /\ UNCHANGED <<plannerVars, storeVars, routeVars, scoreVars, generation, bookings>>

NextCall ==
    \/ \E in \in CallInputs, t \in 0..MaxTimeout, i \in 1..MaxPollInterval :
          MakeReservationCall(in, t, i)
    \/ \E fetch \in Fetches, d \in 0..MaxPollTime : Poll(fetch, d)
    \/ \E fetch \in Fetches, d \in 0..MaxPollTime : Final(fetch, d)
    \/ Sleep
    \/ Timeout

SpecCall == InitCall /\ [][NextCall]_vars

\* every request to ElevenLabs is answered or fails, and a sleep ends
SpecCallLive == SpecCall /\ WF_vars(NextCall)

-----------------------------------------------------------------------------
(* SpecList: make_reservations_from_list, one call of make_reservation_call  *)
(* after the other                                                            *)

MaxCandidates == 3

\* everything make_reservation_call can return with the two flags as given
CallResults(assume_confirmed, wait_for_outcome) ==
    { make_reservation_call(valid, assume_confirmed, wait_for_outcome, post, sms_ok,
                            final_outcome) :
        valid \in BOOLEAN, post \in Posts, sms_ok \in BOOLEAN,
        final_outcome \in AwaitOutcomes }

\* a call that was placed counts as confirmed
reservation_confirmed_Placed(result) ==
    result.success

\* lines 444-445: reservation_accepted is the boolean True
reservation_confirmed(result) ==
    Get(result, "reservation_accepted", << >>) = <<TRUE>>

\* lines 452-466: the answer when the list is used up
exhausted_payload(attempts) ==
    LET final_result == attempts[Len(attempts)]
        response_payload == [restaurant_attempts_exhausted |-> TRUE] @@ final_result
    IN  IF Get(response_payload, "reservation_accepted", << >>) \in { << >>, <<FALSE>> }
          THEN [success |-> FALSE] @@ response_payload
          ELSE response_payload

InitList == InitCall

\* lines 380-400: the candidate list is looked up; without one the request
\* is handed to make_reservation_call and its result returned as it is
MakeReservationsFromList(n, assume_confirmed, wait_for_outcome) ==
    /\ call.pc = "idle"
    /\ IF n = 0
         THEN \E result \in CallResults(assume_confirmed, wait_for_outcome) :
                call' = [pc |-> "returned", n |-> n, assume_confirmed |-> assume_confirmed,
                         wait_for_outcome |-> wait_for_outcome, attempts |-> << >>,
                         result |-> <<result>>]
         ELSE call' = [pc |-> "calling", n |-> n, assume_confirmed |-> assume_confirmed,
                       wait_for_outcome |-> wait_for_outcome, attempts |-> << >>,
                       result |-> << >>]
    /\ UNCHANGED <<plannerVars, storeVars, routeVars, scoreVars, generation, bookings>>

\* lines 430-466: one turn of the loop, and the return when it is the last
CallCandidate ==
    /\ call.pc = "calling"
    /\ \E r \in CallResults(call.assume_confirmed, call.wait_for_outcome) :
        LET index == Len(call.attempts)
            result == [attempt_index |-> index] @@ r
            attempts == Append(call.attempts, result)
        IN  call' =
              IF reservation_confirmed(result)
                THEN [call EXCEPT !.pc = "returned", !.attempts = attempts,
                                  !.result = <<[restaurant_attempts_exhausted |-> FALSE]
                                                @@ result>>]
              ELSE IF Len(attempts) = call.n
                THEN [call EXCEPT !.pc = "returned", !.attempts = attempts,
                                  !.result = <<exhausted_payload(attempts)>>]
              ELSE [call EXCEPT !.attempts = attempts]
    /\ UNCHANGED <<plannerVars, storeVars, routeVars, scoreVars, generation, bookings>>

NextList ==
    \/ \E n \in 0..MaxCandidates, a \in BOOLEAN, w \in BOOLEAN :
          MakeReservationsFromList(n, a, w)
    \/ CallCandidate

SpecList == InitList /\ [][NextList]_vars

-----------------------------------------------------------------------------
(* What the claims call a match between a candidate and a dislike record *)

ActiveRecord(d) == ("is_active" \notin DOMAIN d) \/ d.is_active = TRUE

\* equal location_id; an empty location_id identifies nothing
MatchesById(c, d) ==
    /\ "location_id" \in DOMAIN d
    /\ c.location_id # ""
    /\ c.location_id = d.location_id

\* equal lower-cased, trimmed name and equal lower-cased, trimmed address, the
\* candidate's address being its non-empty components joined by ", "
MatchesByNameAddress(c, d) ==
    /\ "restaurant_name" \in DOMAIN d
    /\ "restaurant_address" \in DOMAIN d
    /\ Strip(Lower(c.name)) = Strip(Lower(d.restaurant_name))
    /\ LET a == c.address_obj
           parts == <<Get(a, "street", <<>>), Get(a, "city", <<>>),
                      Get(a, "state", <<>>), Get(a, "country", <<>>)>>
       IN  Strip(Lower(JoinNonEmpty(parts))) = Strip(Lower(d.restaurant_address))

MatchesActiveDislike(c, ds) ==
    \E i \in DOMAIN ds :
        ActiveRecord(ds[i]) /\ (MatchesById(c, ds[i]) \/ MatchesByNameAddress(c, ds[i]))

-----------------------------------------------------------------------------
(* C1: in the agentic_ai workflow no candidate that matches an active dislike, *)
(* by location_id or by normalised (name, address), is in the output of        *)
(* filter_blacklisted_restaurants or in top_recommendations.                   *)
C1_BlacklistExclusive ==
    (variant = "agentic_ai" /\ dpc \in {"score", "done"}) =>
        /\ \A i \in DOMAIN restaurants :
              ~ MatchesActiveDislike(restaurants[i], state.dislikes)
        /\ \A i \in DOMAIN top_recommendations :
              ~ MatchesActiveDislike(top_recommendations[i].restaurant, state.dislikes)

\* a finished run whose pool held a candidate matched only through lower() and
\* strip(), and one that survived
C1_Witness ==
    /\ variant = "agentic_ai"
    /\ dpc = "done"
    /\ top_recommendations # <<>>
    /\ \E i \in DOMAIN all_restaurants, j \in DOMAIN state.dislikes :
          /\ ActiveRecord(state.dislikes[j])
          /\ MatchesByNameAddress(all_restaurants[i], state.dislikes[j])
          /\ all_restaurants[i].name # state.dislikes[j].restaurant_name
          /\ ~ MatchesById(all_restaurants[i], state.dislikes[j])

(* C2: records with is_active = false remove nothing: the filter's result is   *)
(* the one it gives for the list without them.                                 *)
WithoutInactive(ds) ==
    SelectSeq(ds, LAMBDA d : ~ ("is_active" \in DOMAIN d /\ d.is_active = FALSE))

C2_InactiveInert ==
    dpc \in {"once", "twice"} =>
        pass1 = filter_blacklisted_restaurants(all_restaurants,
                                               WithoutInactive(state.dislikes))

\* an inactive record names a candidate of the pool, which is in the output
C2_Witness ==
    /\ dpc = "once"
    /\ \E i \in DOMAIN all_restaurants, j \in DOMAIN state.dislikes :
          /\ ~ ActiveRecord(state.dislikes[j])
          /\ \/ MatchesById(all_restaurants[i], state.dislikes[j])
             \/ MatchesByNameAddress(all_restaurants[i], state.dislikes[j])
          /\ \E k \in DOMAIN pass1 : pass1[k] = all_restaurants[i]

(* C3: filtering the filter's own output with the same dislikes changes nothing *)
C3_FilterIdempotent == dpc = "twice" => pass2 = pass1

\* the first pass removed something and kept something
C3_Witness ==
    /\ dpc = "twice"
    /\ pass1 # <<>>
    /\ Len(pass1) < Len(all_restaurants)

(* C4: score_restaurant is never invoked on a candidate that matches an active *)
(* dislike of the workflow state, in either copy of discover_restaurants.      *)
C4_FilterBeforeScoring ==
    \A i \in DOMAIN score_calls :
        ~ MatchesActiveDislike(score_calls[i], Get(state, "dislikes", <<>>))

-----------------------------------------------------------------------------
(* The participants of an event and what is generated for it *)

Participants(event_id) ==
    {events[event_id].organizer_phone}
      \cup { a.respondent_phone :
               a \in Range(get_confirmed_attendees(event_responses, event_id)) }

EventDislikes(event_id) ==
    get_event_attendee_dislikes(event_responses, events, restaurant_dislikes, event_id)

\* generate_recommendations on what the routes read for the event
Generated(event_id) ==
    GenerationFor(users, events, event_responses, restaurant_dislikes, events[event_id],
                  get_confirmed_attendees(event_responses, event_id))

\* (name, address) of the restaurants a generation result recommends
Recommended(g) ==
    IF g.raised THEN {}
    ELSE { <<r.restaurant_name, r.address>> : r \in Range(g.result.recommendations) }

\* the dislike names the recommended restaurant: lower-cased, trimmed name and
\* address are equal
MatchesRecommendation(rec, d) ==
    /\ Strip(Lower(d.restaurant_name)) = Strip(Lower(rec.restaurant_name))
    /\ Strip(Lower(d.restaurant_address)) = Strip(Lower(rec.address))

\* the same with the texts compared as they are
MatchesRecommendationExactly(rec, d) ==
    /\ d.restaurant_name = rec.restaurant_name
    /\ d.restaurant_address = rec.address

\* C5: for every event, get_event_attendee_dislikes returns every active
\* dislike owned by the organizer or by a confirmed attendee, and no restaurant
\* matched by one of the returned dislikes is among the recommendations
\* generated for the event, whoever of the participants owns the dislike.
C5_GroupScopedDislikes ==
    \A e \in DOMAIN events :
        LET returned == EventDislikes(e)
            g == Generated(e)
        IN  /\ \A i \in DOMAIN restaurant_dislikes :
                  (/\ ActiveRecord(restaurant_dislikes[i])
                   /\ restaurant_dislikes[i].user_phone \in Participants(e))
                    => \E j \in DOMAIN returned : returned[j].id = i
            /\ ~g.raised
            /\ \A d \in Range(returned), rec \in Range(g.result.recommendations) :
                  ~MatchesRecommendation(rec, d)

\* what holds of the code: the returned dislikes are those of the participants,
\* and a restaurant is absent when a returned dislike spells its name and
\* address exactly as the service does
GroupScopedExactDislikes ==
    \A e \in DOMAIN events :
        LET returned == EventDislikes(e)
            g == Generated(e)
        IN  /\ \A i \in DOMAIN restaurant_dislikes :
                  (/\ ActiveRecord(restaurant_dislikes[i])
                   /\ restaurant_dislikes[i].user_phone \in Participants(e))
                    <=> \E j \in DOMAIN returned : returned[j].id = i
            /\ ~g.raised
            /\ \A d \in Range(returned), rec \in Range(g.result.recommendations) :
                  ~MatchesRecommendationExactly(rec, d)

\* the generation for the event had the record with this id not been returned
GeneratedWithout(event_id, dislike_id) ==
    generate_recommendations(
        events[event_id],
        AttendeePreferences(users, events[event_id],
                            get_confirmed_attendees(event_responses, event_id)),
        SelectSeq(EventDislikes(event_id), LAMBDA d : d.id # dislike_id))

\* a step that is delete_dislike on an active record and nothing else
IsDeleteDislike(dislike_id) ==
    /\ dislike_id \in DOMAIN restaurant_dislikes
    /\ restaurant_dislikes[dislike_id].is_active = TRUE
    /\ restaurant_dislikes' = delete_dislike(restaurant_dislikes, dislike_id)
    /\ UNCHANGED <<users, events, event_responses, restaurant_recommendations>>

\* C6: if a participant's active dislike keeps restaurant R out of the
\* generation for an event (R is not recommended, and would be were that one
\* record left out), then after delete_dislike on the record, and no other
\* change, the generation for the event recommends R.
C6_UnblacklistRestores ==
    [][ \A id \in DOMAIN restaurant_dislikes :
          IsDeleteDislike(id) =>
            \A e \in DOMAIN events :
                restaurant_dislikes[id].user_phone \in Participants(e) =>
                  LET otherwise == Recommended(GeneratedWithout(e, id))
                      before    == Recommended(Generated(e))
                      after     ==
                          Recommended(
                              GenerationFor(users', events', event_responses',
                                            restaurant_dislikes', events'[e],
                                            get_confirmed_attendees(event_responses', e)))
                  IN  \A R \in otherwise \ before : R \in after ]_vars

\* a participant's record has been deactivated and the restaurant it names is
\* recommended for the event
C6_Witness ==
    \E e \in DOMAIN events, id \in DOMAIN restaurant_dislikes :
        /\ restaurant_dislikes[id].is_active = FALSE
        /\ restaurant_dislikes[id].user_phone \in Participants(e)
        /\ restaurant_dislikes[id].user_phone # events[e].organizer_phone
        /\ <<restaurant_dislikes[id].restaurant_name,
             restaurant_dislikes[id].restaurant_address>> \in Recommended(Generated(e))

\* the sessions stored for an event
SessionsOf(event_id) == WhereEventId(restaurant_recommendations, event_id)

C8_GenerationSerialized ==
    \A e \in EventIds :
        Cardinality({ r \in DOMAIN requests :
                        /\ requests[r].event.event_id = e
                        /\ requests[r].pc = "generate" }) <= 1

\* C9: get_recommendations(event) returns None when the event has no session,
\* and otherwise a session of that event than which none of the event's
\* sessions has a greater generated_at.
C9_LatestSessionReturned ==
    last_get.called =>
        LET mine == Range(SessionsOf(last_get.event_id))
        IN  IF mine = {} THEN last_get.result = << >>
            ELSE /\ Len(last_get.result) = 1
                 /\ last_get.result[1] \in mine
                 /\ last_get.result[1].event_id = last_get.event_id
                 /\ \A s \in mine : s.generated_at <= last_get.result[1].generated_at

\* the call returned a session although the event has an older one and another
\* event has a newer one
C9_Witness ==
    /\ last_get.called
    /\ last_get.result # << >>
    /\ \E s \in Range(SessionsOf(last_get.event_id)) :
          s.generated_at < last_get.result[1].generated_at
    /\ \E s \in Range(restaurant_recommendations) :
          /\ s.event_id # last_get.event_id
          /\ s.generated_at > last_get.result[1].generated_at

\* C10: every step keeps every stored session as it is, a step that changes
\* the collection adds exactly one record, and so no event's number of
\* sessions decreases.
C10_SessionsNeverDeleted ==
    [][ /\ \A i \in DOMAIN restaurant_recommendations :
              /\ i \in DOMAIN restaurant_recommendations'
              /\ restaurant_recommendations'[i] = restaurant_recommendations[i]
        /\ restaurant_recommendations' # restaurant_recommendations
              => Len(restaurant_recommendations') = Len(restaurant_recommendations) + 1
        /\ \A e \in StoreEventIds :
              Len(WhereEventId(restaurant_recommendations', e)) >= Len(SessionsOf(e)) ]_vars

\* an event has a session and a later one that superseded it
C10_Witness ==
    \E e \in StoreEventIds :
        /\ Len(SessionsOf(e)) >= 2
        /\ SessionsOf(e)[1].generated_at < SessionsOf(e)[Len(SessionsOf(e))].generated_at

-----------------------------------------------------------------------------
(* The threshold of the automatic generation *)

\* the confirmed attendees of an event: the respondents with a confirmed record
ConfirmedAttendees(event_id) ==
    { a.respondent_phone :
        a \in Range(get_confirmed_attendees(event_responses, event_id)) }

\* request r leaves its threshold check in this step
LeavesCheck(r) ==
    /\ r \in DOMAIN requests
    /\ requests[r].pc = "check"
    /\ r \in DOMAIN requests'
    /\ requests'[r].pc # "check"

\* C11: submit_response starts the automatic generation if and only if, with
\* its response stored, the event's expected_attendee_count is set and the
\* number of confirmed attendees is at least that count; otherwise it stores
\* no session and leaves the event as it is.
C11_GenerationIffThreshold ==
    [][ \A r \in RequestIds :
          LeavesCheck(r) =>
            LET e == requests[r].event.event_id
                expected == events[e].expected_attendee_count
                met == expected # 0 /\ Cardinality(ConfirmedAttendees(e)) >= expected
            IN  /\ requests'[r].pc = "generate" <=> met
                /\ ~met => /\ events' = events
                           /\ restaurant_recommendations' = restaurant_recommendations
      ]_vars

\* what holds of the code: the same with the confirmed response records counted
\* instead of the attendees
GenerationIffRecordThreshold ==
    [][ \A r \in RequestIds :
          LeavesCheck(r) =>
            LET e == requests[r].event.event_id
                expected == events[e].expected_attendee_count
                met == /\ expected # 0
                       /\ Len(get_confirmed_attendees(event_responses, e)) >= expected
            IN  /\ requests'[r].pc = "generate" <=> met
                /\ ~met => /\ events' = events
                           /\ restaurant_recommendations' = restaurant_recommendations
      ]_vars

-----------------------------------------------------------------------------
(* The score of one candidate *)

Returned == score_call.pc = "returned"

\* the first element of each fragment of a reasoning: which sub-score it reports
Labels(reasoning) == [i \in DOMAIN reasoning |-> reasoning[i][1]]

\* the cuisine tags of the criteria, "Any" left aside
SpecificTags(parsed_input) ==
    { Lower(t) : t \in Range(parsed_input.cuisine_preferences) \ {AnyTag} }

\* the tags common to the restaurant and the criteria, whatever their case
CommonTags(r, parsed_input) ==
    { Lower(t) : t \in Range(r.cuisine) } \cap SpecificTags(parsed_input)

BandValue(p) ==
    CASE p = "$" -> 25 [] p = "$$" -> 50 [] p = "$$$" -> 100 [] p = "$$$$" -> 200

\* the five contributions the scoring table lists, in hundredths
TableContributions(r, parsed_input) ==
    << IF /\ "address_obj" \in DOMAIN r
          /\ r.address_obj.city # << >>
          /\ IsSubstring(Lower(parsed_input.location_preference),
                         Lower(r.address_obj.city))
         THEN 200 ELSE 0,
       100 * Cardinality(CommonTags(r, parsed_input)),
       IF /\ parsed_input.budget_min <= BandValue(r.price_level)
          /\ BandValue(r.price_level) <= parsed_input.budget_max
         THEN 150 ELSE 0,
       IF r.rating > 0 THEN r.rating * 5 ELSE 0,
       IF parsed_input.attendee_count <= 20 THEN 100 ELSE 0 >>

TableLabels ==
    << "Location matches", "Matches cuisines", "Price level within budget range",
       "Rating bonus", "Can accommodate group of" >>

\* the labels of the contributions that are not zero, in the table's order
RECURSIVE FiredLabels(_, _)
FiredLabels(contributions, labels) ==
    IF contributions = << >> THEN << >>
    ELSE (IF Head(contributions) # 0 THEN <<Head(labels)>> ELSE << >>)
           \o FiredLabels(Tail(contributions), Tail(labels))

ScoreIsTableSum(result, r, parsed_input) ==
    LET t == TableContributions(r, parsed_input)
    IN  /\ result.score = t[1] + t[2] + t[3] + t[4] + t[5]
        /\ \A i \in 1..5 : t[i] >= 0
        /\ \/ Labels(result.reasoning) = FiredLabels(t, TableLabels)
           \/ /\ FiredLabels(t, TableLabels) = << >>
              /\ result.reasoning = << <<"General recommendation">> >>

\* C13: the score of agentic_ai's score_restaurant is exactly the sum of the
\* table's contributions (+2.0 location, +1.0 per common cuisine tag, +1.5 price
\* band within the budget, +rating/2, +1.0 party of at most 20), none of them
\* negative, and the reasoning lists the fragments of those that fired in that
\* order.
C13_ScoreIsSumOfSubScores ==
    (Returned /\ score_call.variant = "agentic_ai") =>
        ScoreIsTableSum(score_call.result, score_call.restaurant,
                        score_call.parsed_input)

\* what holds of the code: the same for criteria that do not name "Any" next
\* to a tag the restaurant has
ScoreIsSumWithoutAny ==
    ( /\ Returned
      /\ score_call.variant = "agentic_ai"
      /\ \/ AnyTag \notin Range(score_call.parsed_input.cuisine_preferences)
         \/ CommonTags(score_call.restaurant, score_call.parsed_input) = {} ) =>
        ScoreIsTableSum(score_call.result, score_call.restaurant,
                        score_call.parsed_input)

HasCuisineFragment(reasoning) ==
    \E i \in DOMAIN reasoning :
        reasoning[i][1] \in {"Matches cuisines", "Cuisine similarity"}

\* C14: "Any" next to specific tags is ignored: the specific tags the candidate
\* shares with the criteria still give the cuisine contribution, in both copies
\* of score_restaurant; the cuisine sub-score is left out only when "Any" is
\* the only tag of the criteria.
C14_AnyIgnoredAmongTags ==
    ( /\ Returned
      /\ CommonTags(score_call.restaurant, score_call.parsed_input) # {}
      /\ score_call.parsed_input.cuisine_preferences # <<AnyTag>> ) =>
        HasCuisineFragment(score_call.result.reasoning)

\* what holds of the code: the contribution is there when "Any" is not named
CuisineContributionWithoutAny ==
    ( /\ Returned
      /\ CommonTags(score_call.restaurant, score_call.parsed_input) # {}
      /\ AnyTag \notin Range(score_call.parsed_input.cuisine_preferences) ) =>
        HasCuisineFragment(score_call.result.reasoning)

\* C15: score_restaurant returns a reasoning that is not empty; when no
\* sub-score fires the score is 0.0 and the reasoning is exactly
\* "General recommendation".
C15_ReasoningNeverEmpty ==
    Returned =>
      /\ score_call.result.reasoning # << >>
      /\ \A i \in DOMAIN score_call.result.reasoning :
            score_call.result.reasoning[i] # << >>
      /\ (\A i \in DOMAIN score_call.result.reasoning :
              score_call.result.reasoning[i][1] \notin Range(TableLabels)
                                                       \cup {"Cuisine similarity"})
            => /\ score_call.result.score = 0
               /\ score_call.result.reasoning = << <<"General recommendation">> >>
      /\ score_call.result.score = 0
            => score_call.result.reasoning = << <<"General recommendation">> >>

\* a call in which no sub-score fires has returned
C15_Witness ==
    /\ Returned
    /\ score_call.variant = "agentic_ai"
    /\ score_call.result = [score |-> 0,
                            reasoning |-> << <<"General recommendation">> >>]
    /\ score_call.parsed_input.attendee_count = 21
    /\ score_call.restaurant.rating = 0

-----------------------------------------------------------------------------
-----------------------------------------------------------------------------
(* The ranking of discover_restaurants *)

Count(xs, x) == Cardinality({ i \in DOMAIN xs : xs[i] = x })

Min(a, b) == IF a < b THEN a ELSE b

\* C16: discover_restaurants of agentic_ai returns min(5, n) recommendations,
\* n being the number of candidates that survive the filter, in non-increasing
\* order of score, and every surviving candidate that is left out scores at
\* most what the lowest returned one scores.
C16_TopFiveByScore ==
    (dpc = "done" /\ variant = "agentic_ai") =>
        LET n == Len(filter_blacklisted_restaurants(all_restaurants,
                                                    Get(state, "dislikes", << >>)))
            k == Len(top_recommendations)
        IN  /\ k = Min(5, n)
            /\ Len(scored_restaurants) = n
            /\ \A i \in 1..k, j \in 1..k :
                  i < j => top_recommendations[i].score >= top_recommendations[j].score
            /\ \A i \in 1..k :
                  Count(top_recommendations, top_recommendations[i])
                     <= Count(scored_restaurants, top_recommendations[i])
            /\ k > 0 =>
                  Cardinality({ i \in 1..n : scored_restaurants[i].score
                                                > top_recommendations[k].score })
                    = Cardinality({ i \in 1..k : top_recommendations[i].score
                                                > top_recommendations[k].score })

\* more than five candidates survived a filter that removed some; one of those
\* left out scores less than the lowest returned
C16_Witness ==
    /\ dpc = "done"
    /\ variant = "agentic_ai"
    /\ Len(restaurants) < Len(all_restaurants)
    /\ Len(restaurants) > 5
    /\ Len(top_recommendations) = 5
    /\ \E i \in DOMAIN scored_restaurants :
          scored_restaurants[i].score < top_recommendations[5].score

\* where a stable sort by descending score puts element i of xs
StablePosition(xs, i) ==
    1 + Cardinality({ j \in DOMAIN xs :
                        \/ xs[j].score > xs[i].score
                        \/ xs[j].score = xs[i].score /\ j < i })

\* C17: the ranking is stable: candidates with equal scores keep the order in
\* which the pool was read, in both copies of discover_restaurants, so the list
\* is determined by pool, dislikes and criteria and a second run over the same
\* inputs returns the same list.
C17_RankingStable ==
    dpc = "done" =>
        /\ \A i \in DOMAIN scored_restaurants :
              scored_restaurants[i].restaurant = restaurants[i]
        /\ \A i \in DOMAIN scored_restaurants :
              StablePosition(scored_restaurants, i) <= Len(top_recommendations)
                => top_recommendations[StablePosition(scored_restaurants, i)]
                     = scored_restaurants[i]

\* two different venues with the same score are both returned, a lower score
\* having been read between them
C17_Witness ==
    /\ dpc = "done"
    /\ \E i \in DOMAIN top_recommendations, j \in DOMAIN top_recommendations :
          /\ i < j
          /\ top_recommendations[i].score = top_recommendations[j].score
          /\ top_recommendations[i].restaurant # top_recommendations[j].restaurant
    /\ \E a \in DOMAIN restaurants, b \in DOMAIN restaurants, c \in DOMAIN restaurants :
          /\ a < b /\ b < c
          /\ scored_restaurants[a].score = scored_restaurants[c].score
          /\ scored_restaurants[b].score < scored_restaurants[a].score
          /\ restaurants[a] # restaurants[c]

-----------------------------------------------------------------------------
(* The ranks of a session *)

\* the ranks of the entries are 1, 2, ..., N in this order, N at most 5
RanksExact(recommendations) ==
    /\ Len(recommendations) <= 5
    /\ \A i \in DOMAIN recommendations : recommendations[i].rank = i

\* the entries generate_recommendations_from_prompts hands back
PromptEntries(out) ==
    IF "list" \in DOMAIN out THEN out.list ELSE out.recommendations

-----------------------------------------------------------------------------
(* Nothing left to recommend *)

\* dislikes of one participant that name every restaurant of the catalogue as
\* the service spells it
CatalogueDislikes(location) ==
    [i \in DOMAIN MockRestaurants(location) |->
        [user_phone |-> "p1",
         restaurant_name |-> MockRestaurants(location)[i].restaurant_name,
         restaurant_address |-> MockRestaurants(location)[i].address,
         is_active |-> TRUE]]

\* C19: with an empty pool, or with every candidate removed by the blacklist
\* filter, generation completes with an empty list of recommendations and
\* raises nothing: discover_restaurants of agentic_ai returns, having scored
\* nothing, with top_recommendations empty;
\* AIAgentService.generate_recommendations returns a result whose
\* recommendations are empty.
C19_EmptyPoolEmptyList ==
    /\ ( /\ variant = "agentic_ai"
         /\ dpc = "done"
         /\ filter_blacklisted_restaurants(all_restaurants,
                                           Get(state, "dislikes", << >>)) = << >> ) =>
          /\ score_calls = << >>
          /\ top_recommendations = << >>
    /\ LET g == generate_recommendations([location |-> <<"Amsterdam">>], << >>,
                                         CatalogueDislikes(<<"Amsterdam">>))
       IN  /\ ~g.raised
           /\ g.result.recommendations = << >>
           /\ Len(g.result.excluded_restaurants) = 5

\* discover_restaurants has returned for a pool that was not empty and of
\* which the filter left nothing
C19_Witness ==
    /\ dpc = "done"
    /\ variant = "agentic_ai"
    /\ all_restaurants # << >>
    /\ restaurants = << >>
    /\ top_recommendations = << >>

-----------------------------------------------------------------------------
(* Generation asked for on demand *)

\* the generate-recommendations route answers a request for event e in this step
RouteAnswers(e) == http' # http /\ http'.event_id = e

-----------------------------------------------------------------------------
(* The response records of an event *)

\* C23: whatever the interleaving of the submit_response calls, at most one
\* response record is stored per (event, respondent), a resubmission updating
\* the record in place, so that the confirmed attendees counted for an event
\* are as many as its distinct confirmed respondents.
C23_OneRecordPerRespondent ==
    /\ \A i \in DOMAIN event_responses, j \in DOMAIN event_responses :
          ( /\ event_responses[i].event_id = event_responses[j].event_id
            /\ event_responses[i].respondent_phone
                 = event_responses[j].respondent_phone ) => i = j
    /\ \A e \in EventIds :
          Len(get_confirmed_attendees(event_responses, e))
            = Cardinality(ConfirmedAttendees(e))

\* what holds of the code: the same when the requests are served one at a
\* time (checked under Spec)
OneRecordPerRespondentInTurn ==
    \A i \in DOMAIN event_responses, j \in DOMAIN event_responses :
        ( /\ event_responses[i].event_id = event_responses[j].event_id
          /\ event_responses[i].respondent_phone
               = event_responses[j].respondent_phone ) => i = j

-----------------------------------------------------------------------------
(* What the blacklist filter lets through *)

NoMatch(c) == ~ MatchesActiveDislike(c, state.dislikes)

\* C24: filter_blacklisted_restaurants removes only matching candidates: the
\* candidates that match no active dislike, neither by location_id nor by
\* normalised (name, address), are all in the output, as they were and in the
\* order they had; with no dislike at all the output is the input.
C24_OnlyMatchesRemoved ==
    dpc \in {"once", "twice"} =>
        /\ SelectSeq(pass1, NoMatch) = SelectSeq(all_restaurants, NoMatch)
        /\ state.dislikes = << >> => pass1 = all_restaurants

\* the filter removed a candidate and let another through, which a dislike
\* with an empty location_id did not touch although its own is empty too
C24_Witness ==
    /\ dpc = "once"
    /\ Len(pass1) < Len(all_restaurants)
    /\ \E i \in DOMAIN pass1, j \in DOMAIN state.dislikes :
          /\ pass1[i].location_id = ""
          /\ ActiveRecord(state.dislikes[j])
          /\ "location_id" \in DOMAIN state.dislikes[j]
          /\ state.dislikes[j].location_id = ""

-----------------------------------------------------------------------------
(* Identity before name and address *)

HasIdentity(x) == "location_id" \in DOMAIN x /\ x.location_id # ""

\* identity decides where both sides carry one; name and address decide only
\* where one side has none
MatchesIdentityFirst(c, d) ==
    IF HasIdentity(c) /\ HasIdentity(d)
      THEN c.location_id = d.location_id
      ELSE MatchesByNameAddress(c, d)

NoIdentityFirstMatch(c) ==
    ~ \E i \in DOMAIN state.dislikes :
          ActiveRecord(state.dislikes[i]) /\ MatchesIdentityFirst(c, state.dislikes[i])

\* C25: the blacklist matches on identity first and falls back on normalised
\* name and address only where the candidate or the dislike record carries no
\* identity: the filter removes exactly the candidates so matched, and a
\* candidate whose identity differs from that of an active dislike is kept
\* even when name and address are equal.
C25_IdentityBeforeNameAddress ==
    dpc \in {"once", "twice"} =>
        pass1 = SelectSeq(all_restaurants, NoIdentityFirstMatch)

\* C25 as the code has it: a candidate is removed exactly when its non-empty
\* identity is that of an active dislike or its normalised name and address
\* are those of an active dislike; a dislike carrying both keys matches on
\* either, also against a candidate whose identity differs from its own.
C25_EitherKeyMatches ==
    dpc \in {"once", "twice"} => pass1 = SelectSeq(all_restaurants, NoMatch)

\* candidates with an identity, all removed by dislikes of another identity
\* and the same name and address
C25_Witness ==
    /\ dpc = "once"
    /\ pass1 = << >>
    /\ Len(all_restaurants) = 2
    /\ \A i \in DOMAIN all_restaurants : all_restaurants[i].location_id = "L1"
    /\ \E j \in DOMAIN state.dislikes :
          /\ HasIdentity(state.dislikes[j])
          /\ state.dislikes[j].location_id = "L2"
          /\ MatchesByNameAddress(all_restaurants[1], state.dislikes[j])
    /\ \A j \in DOMAIN state.dislikes :
          ActiveRecord(state.dislikes[j]) =>
              HasIdentity(state.dislikes[j]) /\ state.dislikes[j].location_id = "L2"

-----------------------------------------------------------------------------
(* Dislike records of either kind in AIAgentService.generate_recommendations *)

HasNameAddress(d) == {"restaurant_name", "restaurant_address"} \subseteq DOMAIN d

\* the catalogue entries an active record keyed by name and address names
\* are not among the recommendations
NamedDislikesExcluded ==
    \A i \in DOMAIN generation.out.result.recommendations :
        \A j \in DOMAIN generation.dislikes :
            LET r == generation.out.result.recommendations[i]
                d == generation.dislikes[j]
            IN  (ActiveRecord(d) /\ HasNameAddress(d)) =>
                    ~ ( /\ r.restaurant_name = d.restaurant_name
                        /\ r.address = d.restaurant_address )

\* C26: generation tolerates any mix of dislike records keyed by identity only
\* and records keyed by name and address only:
\* AIAgentService.generate_recommendations does not raise on such a list, and
\* every active record still excludes the candidates it matches.
C26_MixedDislikesTolerated ==
    generation.pc = "returned" =>
        /\ ~ generation.out.raised
        /\ NamedDislikesExcluded

\* what holds of generate_recommendations: it returns, with the named entries
\* excluded, when every active record has name, address and owner
NameKeyedDislikesTolerated ==
    ( /\ generation.pc = "returned"
      /\ \A j \in DOMAIN generation.dislikes :
             ActiveRecord(generation.dislikes[j]) =>
                 /\ HasNameAddress(generation.dislikes[j])
                 /\ "user_phone" \in DOMAIN generation.dislikes[j] )
        => /\ ~ generation.out.raised
           /\ NamedDislikesExcluded

\* the filter of the agentic_ai workflow on such a list: nothing raises and
\* every candidate an active record matches, by either key, is removed
MixedDislikesFiltered ==
    dpc \in {"once", "twice"} =>
        \A i \in DOMAIN pass1 : ~ MatchesActiveDislike(pass1[i], state.dislikes)

-----------------------------------------------------------------------------
(* The collective criteria of generate_recommendations *)

\* attendee i of the call names the restriction t
Restricts(attendee_preferences, i, t) ==
    /\ "dietary_restrictions" \in DOMAIN attendee_preferences[i]
    /\ \E j \in DOMAIN attendee_preferences[i].dietary_restrictions :
          attendee_preferences[i].dietary_restrictions[j] = t

DietaryTags == { <<"v">>, <<"V">>, <<" ", "v">>, <<"g">> }

\* the restrictions of the attendees of a call, each taken from its entry
AttendeeRestrictions(attendee_preferences) ==
    { t \in DietaryTags :
        \E i \in DOMAIN attendee_preferences : Restricts(attendee_preferences, i, t) }

Collective(g) == g.out.result.collective_dietary_restrictions

\* C28: the collective dietary restrictions generate_recommendations computes
\* are the union over all attendees: every restriction of every attendee is
\* in the result (and nothing else is), and a call with one more attendee
\* preference added to the input removes no restriction from it.
C28_DietaryUnion ==
    /\ [](generation.pc = "returned" /\ ~ generation.out.raised =>
             /\ Collective(generation) \subseteq DietaryTags
             /\ Collective(generation)
                  = AttendeeRestrictions(generation.attendee_preferences))
    /\ [][ ( /\ generation.pc = "returned" /\ ~ generation.out.raised
             /\ generation'.pc = "returned" /\ ~ generation'.out.raised )
             => Collective(generation) \subseteq Collective(generation') ]_vars

\* a call with one attendee more than the one before, the added attendee
\* naming no restriction and the earlier ones two different ones
C28_Witness ==
    /\ generation.pc = "returned"
    /\ ~ generation.out.raised
    /\ Len(generation.attendee_preferences) = MaxAttendees + 1
    /\ "dietary_restrictions"
          \notin DOMAIN generation.attendee_preferences[MaxAttendees + 1]
    /\ Cardinality(Collective(generation)) >= 2

\* C29: dietary restrictions of different attendees that differ only in
\* letter case or surrounding whitespace collapse to a single entry of the
\* collective dietary restrictions.
C29_CaseAndSpaceCollapse ==
    (generation.pc = "returned" /\ ~ generation.out.raised) =>
        \A a, b \in Collective(generation) :
            Strip(Lower(a)) = Strip(Lower(b)) => a = b

\* what holds of the code: restrictions collapse when they are the same string
ExactDuplicatesCollapse ==
    (generation.pc = "returned" /\ ~ generation.out.raised) =>
        Cardinality(Collective(generation))
          <= Cardinality(AttendeeRestrictions(generation.attendee_preferences))

\* C30: alcohol is required for the group if and only if at least one
\* attendee's alcohol preference is the requiring value, 'alcoholic': one
\* attendee requiring it with any number of attendees without preference
\* gives true, no attendee requiring it gives false.
C30_AlcoholUnion ==
    (generation.pc = "returned" /\ ~ generation.out.raised) =>
        ( generation.out.result.alcohol_availability_required
            <=> \E i \in DOMAIN generation.attendee_preferences :
                   /\ "alcohol_preference" \in DOMAIN generation.attendee_preferences[i]
                   /\ generation.attendee_preferences[i].alcohol_preference = "alcoholic" )

\* one attendee asks for alcohol, two have no preference: required
C30_Witness ==
    /\ generation.pc = "returned"
    /\ ~ generation.out.raised
    /\ generation.out.result.alcohol_availability_required
    /\ Len(generation.attendee_preferences) = 3
    /\ \E i \in 1..3 :
          /\ Get(generation.attendee_preferences[i], "alcohol_preference", "") = "alcoholic"
          /\ \A j \in (1..3) \ {i} :
                Get(generation.attendee_preferences[j], "alcohol_preference", "")
                  = "no-preference"

-----------------------------------------------------------------------------
(* Optional fields that are missing or None *)

\* C27: missing or null optional fields never raise: for a candidate or
\* criteria in which location preference, cuisine list, budget bounds,
\* rating, price band, address or attendee count is absent or None,
\* score_restaurant returns a (score, reasoning) pair, computed with the
\* default of the field.
C27_PartialFieldsNeverRaise ==
    score_call.pc = "returned" =>
        /\ ~ score_call.out.raised
        /\ score_call.out.result.reasoning # << >>

\* what holds of score_restaurant: it returns when no key holds None, whichever
\* keys are absent, and None is harmless as address, cuisine list or price band
AbsentFieldsNeverRaise ==
    ( /\ score_call.pc = "returned"
      /\ Nulls(score_call.restaurant) \subseteq {"address_obj", "cuisine", "price_level"}
      /\ Nulls(score_call.parsed_input) \subseteq {"cuisine_preferences"} )
        => /\ ~ score_call.out.raised
           /\ score_call.out.result.reasoning # << >>

\* generate_recommendations returns a result for attendees without dietary,
\* alcohol or location fields, whatever the dislikes of the route's shape
LackingFieldsTolerated ==
    ( /\ generation.pc = "returned"
      /\ \A j \in DOMAIN generation.dislikes :
             ActiveRecord(generation.dislikes[j]) =>
                 /\ HasNameAddress(generation.dislikes[j])
                 /\ "user_phone" \in DOMAIN generation.dislikes[j] )
        => /\ ~ generation.out.raised
           /\ generation.out.result.collective_dietary_restrictions \subseteq DietaryTags
           /\ generation.out.result.alcohol_availability_required \in BOOLEAN

-----------------------------------------------------------------------------
(* The budget of the parsed criteria *)

StatedBudgets(rs) == { rs[i].budget : i \in { j \in DOMAIN rs : "budget" \in DOMAIN rs[j] } }

\* C31: the aggregated budget has as minimum the lowest minimum and as
\* maximum the highest maximum stated by any attendee: budgets (10, 30) and
\* (20, 50) aggregate to (10, 50).
C31_BudgetCoversAll ==
    (dpc = "parsed" /\ StatedBudgets(state.input) # {}) =>
        /\ \A b \in StatedBudgets(state.input) :
              state.budget_min <= b[1] /\ b[2] <= state.budget_max
        /\ \E b \in StatedBudgets(state.input) : state.budget_min = b[1]
        /\ \E b \in StatedBudgets(state.input) : state.budget_max = b[2]

\* what holds of parse_input: the budget it returns is never None and its
\* maximum is never 0, whatever the LLM answered
ParsedBudgetDefaulted ==
    (dpc = "parsed" /\ state.input # << >>) =>
        /\ state.budget_min \in {0, 10, 20}
        /\ state.budget_max \in {30, 50, 1000}

-----------------------------------------------------------------------------
(* The location a generation uses *)

HasOverride(d) == Get(d, "location_preference_override", << >>) # << >>

\* the confirmed responses of e1 that carry an override
Overriding == { i \in DOMAIN event_responses : HasOverride(event_responses[i]) }

\* C32: the location used for generation is the override of the
\* first-submitted attendee that has one, and the location configured for the
\* event exactly when no attendee has an override.
C32_FirstSubmittedOverrideWins ==
    generation.pc = "returned" =>
        /\ ~ generation.out.raised
        /\ IF Overriding = {}
             THEN generation.out.result.location_consensus
                    = Get(generation.event, "location", <<"None">>)
             ELSE \E i \in Overriding :
                    /\ \A j \in Overriding :
                          event_responses[i].responded_at
                            <= event_responses[j].responded_at
                    /\ generation.out.result.location_consensus
                         = event_responses[i].location_preference_override

\* what holds of generate_recommendations: the first entry of the list it is
\* given that has a non-empty override decides, the event's location when
\* there is none
FirstListedOverrideWins ==
    (generation.pc = "returned" /\ ~ generation.out.raised) =>
        LET ps == generation.attendee_preferences
            with == { i \in DOMAIN ps : Get(ps[i], "location_override", << >>) # << >> }
        IN  IF with = {}
              THEN generation.out.result.location_consensus
                     = Get(generation.event, "location", <<"None">>)
              ELSE \E i \in with :
                     /\ \A j \in with : i <= j
                     /\ generation.out.result.location_consensus = ps[i].location_override

-----------------------------------------------------------------------------
(* The status of an event and its sessions *)

\* C33: in every reachable state an event whose status is 'ready_for_booking'
\* has at least one recommendation session stored for it.
C33_ReadyMeansSession ==
    \A e \in DOMAIN events :
        events[e].status = "ready_for_booking" =>
            \E i \in DOMAIN restaurant_recommendations :
                restaurant_recommendations[i].event_id = e

\* what holds of the routes: no request stores a session
NoSessionStored == restaurant_recommendations = << >>

-----------------------------------------------------------------------------
(* Booking a recommended restaurant *)

\* the sessions of the event that no other session of the event is later than
\* (two sessions saved within one tick of the clock are both the latest)
LatestSessions(event_id) ==
    { i \in DOMAIN restaurant_recommendations :
        /\ restaurant_recommendations[i].event_id = event_id
        /\ \A j \in DOMAIN restaurant_recommendations :
              restaurant_recommendations[j].event_id = event_id
                => restaurant_recommendations[j].generated_at
                     <= restaurant_recommendations[i].generated_at }

HasRank(i, data) ==
    \E k \in DOMAIN restaurant_recommendations[i].recommendations :
        restaurant_recommendations[i].recommendations[k].rank = data.recommendation_rank

\* the request names a rank and the event exists
Addressed(event_id, data) ==
    event_id \in DOMAIN events /\ "recommendation_rank" \in DOMAIN data

\* C34: book_restaurant creates a booking and sets the status of the event to
\* 'booked' only when the event exists and the latest session has an entry
\* whose rank is the requested recommendation_rank; otherwise it answers with
\* an error, creates no booking record and leaves the status of the event as
\* it is.
C34_BookOnlyRankedEntry ==
    [][ \A e \in StoreEventIds, data \in BookData :
            BookRestaurant(e, data) =>
                LET latest == LatestSessions(e)
                    some == Addressed(e, data) /\ \E i \in latest : HasRank(i, data)
                    every == /\ some
                             /\ \A i \in latest : HasRank(i, data)
                             /\ events[e].preferred_time_slots # << >>
                IN  /\ http'.status \in {201, 400, 404}
                    /\ every => http'.status = 201
                    /\ ~some => http'.status # 201
                    /\ IF http'.status = 201
                         THEN /\ Len(bookings') = Len(bookings) + 1
                              /\ bookings'[Len(bookings')].event_id = e
                              /\ events'[e].status = "booked"
                         ELSE /\ bookings' = bookings
                              /\ events' = events ]_vars

\* a booking was made, and a later request for rank 5 of the same event was
\* refused because the session that is the latest by then has four entries
C34_Witness ==
    /\ Len(bookings) = 1
    /\ events["e1"].status = "booked"
    /\ http.status = 404
    /\ http.event_id = "e1"
    /\ http.data = [recommendation_rank |-> 5]
    /\ Len(restaurant_recommendations) >= 2

-----------------------------------------------------------------------------
(* Cancelling an event *)

\* C35: cancellation is logical and final: delete_event keeps the record of
\* the event and sets its status to 'cancelled', and no later submit_response
\* changes the status of a cancelled event (as the one that starts the
\* generation of recommendations and the outbound calls does).
C35_CancellationFinal ==
    [][ /\ \A e \in EventIds :
             DeleteEvent(e) => e \in DOMAIN events' /\ events'[e].status = "cancelled"
        /\ \A e \in EventIds, p \in Phones :
             (/\ e \in DOMAIN events
              /\ events[e].status = "cancelled"
              /\ SubmitResponse(e, p)) => events'[e].status = "cancelled" ]_vars

\* delete_event removes no event and leaves every event it is called for as
\* 'cancelled'
DeleteKeepsRecord ==
    [][ \A e \in EventIds :
            DeleteEvent(e) => /\ DOMAIN events' = DOMAIN events
                              /\ events'[e].status = "cancelled"
                              /\ \A k \in DOMAIN events[e] \ {"status"} :
                                    events'[e][k] = events[e][k] ]_vars

-----------------------------------------------------------------------------
(* Waiting for the outcome of a reservation call *)

\* the positions of `what` in the events of the call
EventsAt(what) == { i \in DOMAIN call.events : call.events[i] = what }

\* the call has entered _await_conversation_outcome
Awaiting == call.pc # "idle" /\ Waiting(call.in)

\* C37: while make_reservation_call waits for the outcome, the SMS workflow is
\* attempted at most once in the call, and only after a poll has returned a
\* definitive outcome; it is not attempted when a poll fails or when the wait
\* times out.
C37_SmsOnceAfterDefinitive ==
    Awaiting =>
        /\ call.sms_attempts <= 1
        /\ Cardinality(EventsAt("sms")) = call.sms_attempts
        /\ \A j \in EventsAt("sms") : \E i \in EventsAt("definitive") : i < j
        /\ (EventsAt("failed") # {} \/ EventsAt("timeout") # {}) => call.sms_attempts = 0

\* two polls, the second definitive, and the SMS workflow attempted after it
C37_Witness ==
    /\ Awaiting
    /\ call.pc = "returned"
    /\ call.events = <<"undecided", "definitive", "sms">>
    /\ call.sms_attempts = 1

\* the wait has returned because the deadline passed
TimedOut == Awaiting /\ call.pc = "returned" /\ EventsAt("timeout") # {}

AwaitReturnsOutcome ==
    (Awaiting /\ call.pc = "returned") =>
        /\ call.final_outcome # << >>
        /\ call.final_outcome[1] \in AwaitOutcomes

-----------------------------------------------------------------------------
(* Calling the candidate restaurants *)

\* the candidates whose call came back with reservation_accepted True
Accepted == { i \in DOMAIN call.attempts : call.attempts[i].reservation_accepted = <<TRUE>> }

\* the candidates are called one at a time in the order of the list, and none
\* after the first that accepts
CalledInOrder ==
    /\ Len(call.attempts) <= call.n
    /\ \A i \in DOMAIN call.attempts : call.attempts[i].attempt_index = i - 1
    /\ \A i \in Accepted : i = Len(call.attempts) /\ call.pc = "returned"
    /\ (call.pc = "returned" /\ Accepted = {}) => Len(call.attempts) = call.n

\* the result says that the list was not used up exactly when a candidate
\* accepted, and reports no success when none did
ResultTellsOutcome ==
    call.pc = "returned" =>
        /\ (/\ "restaurant_attempts_exhausted" \in DOMAIN call.result[1]
             /\ call.result[1].restaurant_attempts_exhausted = FALSE) <=> Accepted # {}
        /\ Accepted = {} => call.result[1].success = FALSE

\* C36: given a list of candidate restaurants, make_reservations_from_list
\* calls them one at a time in list order and places no call after the first
\* candidate whose reservation_accepted is True; the result carries
\* restaurant_attempts_exhausted = False exactly when some candidate was
\* accepted, and success = False when none was.
C36_ListedCandidatesInOrder ==
    (call.pc # "idle" /\ call.n > 0) => CalledInOrder /\ ResultTellsOutcome

\* the third candidate accepted after two that did not
C36_Witness ==
    /\ call.pc = "returned"
    /\ call.n = 3
    /\ Accepted = {3}
    /\ call.result[1].restaurant_attempts_exhausted = FALSE

\* C36 as stated, for every request: with or without a list of candidates
C36_CandidatesInOrder ==
    call.pc # "idle" => CalledInOrder /\ ResultTellsOutcome

====
